---- MODULE Spec2Model ----
(***************************************************************************)
(* A model of pass-it-on's message routing core: the keyed-hash signing    *)
(* and validation of notifications (src/src/notifications.rs), the JSON    *)
(* wire codec with its stream decoder, the server's validator loop         *)
(* (src/src/server.rs), the shutdown coordinator (src/src/shutdown.rs) and *)
(* one run of a start function with the tasks it spawns (client.rs,        *)
(* server.rs, interfaces/, endpoints/), the loading of a configuration     *)
(* file (configuration/, interfaces/http.rs, endpoints/file.rs) and the    *)
(* Matrix endpoint's login and room handling (endpoints/matrix/).          *)
(*                                                                         *)
(* Strings are sequences of one-character strings.  BLAKE3 keyed hashing   *)
(* is an injective function of (key, input): the digest is the pair        *)
(* itself.  A digest's 64 hex digits are one symbol that needs no JSON     *)
(* escaping.                                                               *)
(***************************************************************************)
EXTENDS Naturals, Sequences, FiniteSets, TLC

(***************************************************************************)
(* Bounds of the model.                                                    *)
(***************************************************************************)
\* longest message text drawn as an input
MaxTextLen == 2
\* largest message time drawn as an input (two decimal digits are reached)
MaxTime == 12

(***************************************************************************)
(* Strings and decimal formatting.                                         *)
(***************************************************************************)
DigitChars == <<"0", "1", "2", "3", "4", "5", "6", "7", "8", "9">>

\* format!("{}", time) for an unsigned integer: its decimal digits
RECURSIVE Dec(_)
Dec(n) == IF n < 10 THEN <<DigitChars[n + 1]>>
          ELSE Dec(n \div 10) \o <<DigitChars[(n % 10) + 1]>>

\* every string over alphabet of length at most MaxTextLen
StringsOver(alphabet) == UNION {[1..n -> alphabet] : n \in 0..MaxTextLen}

(***************************************************************************)
(* Message, Key, Notification (notifications.rs).                          *)
(***************************************************************************)
Message(text, time) == [text |-> text, time |-> time]

\* Key::from_bytes: the 32 raw bytes of a master key
Key_from_bytes(bytes) == [raw |-> bytes]


\* Key::generate: blake3 keyed hash of name under hash_key
Key_generate(name, hash_key) == [key |-> hash_key, input |-> name]

\* Key::to_hex: the digest as lowercase hex, one symbol per digest
Key_to_hex(key) == <<ToString(key)>>


\* the MAC input of Message::create_key: format!("{}{}", self.text, self.time)
hash_string(message) == message.text \o Dec(message.time)

\* Message::create_key
create_key(message, notification_key) == Key_generate(hash_string(message), notification_key)

\* Notification::new
Notification_new(message, notification_key) ==
    [message |-> message, key |-> Key_to_hex(create_key(message, notification_key))]

\* ClientReadyMessage::new
ClientReadyMessage(notification_name, message) ==
    [message |-> message, notification_name |-> notification_name]

\* a signer that derives no per-name key and signs under the client key itself
to_notification_master_only(crm, client_key) == Notification_new(crm.message, client_key)

\* ClientReadyMessage::to_notification
to_notification(crm, client_key) ==
    Notification_new(crm.message, Key_generate(crm.notification_name, client_key))

\* Notification::validate
validate(note, hash_key) == note.key = Key_to_hex(create_key(note.message, hash_key))

\* Notification::validate_set: true at the first key of the set that validates
validate_set(note, hash_keys) == \E hash_key \in hash_keys : validate(note, hash_key)

\* ValidatedNotification::new
ValidatedNotification(name_id, message) == [message |-> message, sub_name |-> name_id]

(***************************************************************************)
(* Wire codec: serde_json's encoding of the derived Serialize of           *)
(* Notification and Message, and its decoding by their derived             *)
(* Deserialize (notifications.rs: from_json, from_json_multi, to_json).    *)
(***************************************************************************)
QUOTE == "\""
BACKSLASH == "\\"
NEWLINE == "\n"
EOF == "EOF"
Whitespace == {" ", NEWLINE, "\t", "\r"}

\* the names of the serialized fields
F_message == <<"m", "e", "s", "s", "a", "g", "e">>
F_key == <<"k", "e", "y">>
F_text == <<"t", "e", "x", "t">>
F_time == <<"t", "i", "m", "e">>

\* a string writer that escapes nothing
RECURSIVE escape_nothing(_)
escape_nothing(str) == IF str = <<>> THEN <<>> ELSE <<Head(str)>> \o escape_nothing(Tail(str))

\* serde_json's string escaping: quote, backslash and control characters
RECURSIVE escape(_)
escape(str) ==
    IF str = <<>> THEN <<>>
    ELSE LET c == Head(str)
             e == IF c = QUOTE THEN <<BACKSLASH, QUOTE>>
                  ELSE IF c = BACKSLASH THEN <<BACKSLASH, BACKSLASH>>
                  ELSE IF c = NEWLINE THEN <<BACKSLASH, "n">>
                  ELSE IF c = "\t" THEN <<BACKSLASH, "t">>
                  ELSE IF c = "\r" THEN <<BACKSLASH, "r">>
                  ELSE <<c>>
         IN  e \o escape(Tail(str))

\* a JSON string literal
json_string(str) == <<QUOTE>> \o escape(str) \o <<QUOTE>>

\* serde_json::to_string of a Message: {"text":"...","time":<u128>}
message_to_json(message) ==
    <<"{">> \o json_string(F_text) \o <<":">> \o json_string(message.text)
    \o <<",">> \o json_string(F_time) \o <<":">> \o Dec(message.time) \o <<"}">>

\* Notification::to_json: {"message":{...},"key":"..."}
to_json(note) ==
    <<"{">> \o json_string(F_message) \o <<":">> \o message_to_json(note.message)
    \o <<",">> \o json_string(F_key) \o <<":">> \o json_string(note.key) \o <<"}">>

\* results of the deserializer's steps: a value and the position after it, or an error
Parsed(val, pos) == [ok |-> TRUE, val |-> val, pos |-> pos]
Failed == [ok |-> FALSE]

\* Result<Notification, Error>
Ok(note) == [ok |-> TRUE, val |-> note]
Err == [ok |-> FALSE]

\* the character at position i, EOF past the end
At(s, i) == IF i <= Len(s) THEN s[i] ELSE EOF

\* Deserializer::parse_whitespace: the position of the next non-blank character
RECURSIVE parse_whitespace(_, _)
parse_whitespace(s, i) == IF At(s, i) \in Whitespace THEN parse_whitespace(s, i + 1) ELSE i

\* the characters of a string up to its closing quote, escapes decoded; raw
\* control characters are rejected (\b, \f, \/ and \u escapes are written by
\* no encoder here)
RECURSIVE parse_str_body(_, _, _)
parse_str_body(s, i, acc) ==
    LET c == At(s, i) IN
    IF c = EOF THEN Failed
    ELSE IF c = QUOTE THEN Parsed(acc, i + 1)
    ELSE IF c = BACKSLASH THEN
        LET e == At(s, i + 1) IN
        IF e = QUOTE THEN parse_str_body(s, i + 2, Append(acc, QUOTE))
        ELSE IF e = BACKSLASH THEN parse_str_body(s, i + 2, Append(acc, BACKSLASH))
        ELSE IF e = "n" THEN parse_str_body(s, i + 2, Append(acc, NEWLINE))
        ELSE IF e = "t" THEN parse_str_body(s, i + 2, Append(acc, "\t"))
        ELSE IF e = "r" THEN parse_str_body(s, i + 2, Append(acc, "\r"))
        ELSE Failed
    ELSE IF c \in {NEWLINE, "\t", "\r"} THEN Failed
    ELSE parse_str_body(s, i + 1, Append(acc, c))

\* a JSON string at position i
parse_str(s, i) == IF At(s, i) = QUOTE THEN parse_str_body(s, i + 1, <<>>) ELSE Failed

DigitValue(c) == CHOOSE d \in 0..9 : DigitChars[d + 1] = c
IsDigit(c) == \E d \in 0..9 : DigitChars[d + 1] = c

RECURSIVE scan_digits(_, _, _)
scan_digits(s, i, acc) ==
    IF IsDigit(At(s, i)) THEN scan_digits(s, i + 1, acc * 10 + DigitValue(At(s, i)))
    ELSE Parsed(acc, i)

\* deserialize_u128 (scan_integer128): one leading zero only, then digits
parse_u128(s, i) ==
    LET c == At(s, i) IN
    IF c = "0" THEN (IF IsDigit(At(s, i + 1)) THEN Failed ELSE Parsed(0, i + 1))
    ELSE IF IsDigit(c) THEN scan_digits(s, i, 0)
    ELSE Failed

\* the fields of each struct; IgnoredAny has none
FieldsOf(kind) ==
    IF kind = "Notification" THEN {F_message, F_key}
    ELSE IF kind = "Message" THEN {F_text, F_time}
    ELSE {}

\* the struct built by visit_map once every field was seen
BuildStruct(kind, got) ==
    IF kind = "Notification" THEN [message |-> got[F_message], key |-> got[F_key]]
    ELSE IF kind = "Message" THEN [text |-> got[F_text], time |-> got[F_time]]
    ELSE "ignored"

RECURSIVE parse_struct(_, _, _)
RECURSIVE parse_members(_, _, _, _, _)
RECURSIVE parse_member(_, _, _, _)
RECURSIVE parse_field(_, _, _, _)

\* the value of field `field` of struct `kind`; an unknown field's value is ignored
\* (strings, unsigned integers and objects; the inputs hold no other value)
parse_field(s, i, kind, field) ==
    IF kind = "Notification" /\ field = F_message THEN parse_struct(s, i, "Message")
    ELSE IF kind = "Notification" /\ field = F_key THEN parse_str(s, i)
    ELSE IF kind = "Message" /\ field = F_text THEN parse_str(s, i)
    ELSE IF kind = "Message" /\ field = F_time THEN parse_u128(s, i)
    ELSE IF At(s, i) = QUOTE THEN parse_str(s, i)
    ELSE IF At(s, i) = "{" THEN parse_struct(s, i, "IgnoredAny")
    ELSE parse_u128(s, i)

\* one "name": value member starting at the name's quote
parse_member(s, i, kind, got) ==
    LET name == parse_str(s, i) IN
    IF ~name.ok THEN Failed
    ELSE LET colon == parse_whitespace(s, name.pos) IN
         IF At(s, colon) # ":" THEN Failed
         ELSE IF name.val \in DOMAIN got THEN Failed
         ELSE LET value == parse_field(s, parse_whitespace(s, colon + 1), kind, name.val) IN
              IF ~value.ok THEN Failed
              ELSE IF name.val \in FieldsOf(kind)
                   THEN parse_members(s, value.pos, FALSE, kind, got @@ (name.val :> value.val))
                   ELSE parse_members(s, value.pos, FALSE, kind, got)

\* MapAccess::next_key_seed and the end of the map: members until the closing
\* brace; a missing field or a duplicate field is an error
parse_members(s, i, first, kind, got) ==
    LET j == parse_whitespace(s, i)
        c == At(s, j)
    IN  IF c = "}" THEN (IF FieldsOf(kind) \subseteq DOMAIN got
                         THEN Parsed(BuildStruct(kind, got), j + 1) ELSE Failed)
        ELSE IF c = "," /\ ~first THEN
            LET k == parse_whitespace(s, j + 1) IN
            IF At(s, k) = QUOTE THEN parse_member(s, k, kind, got) ELSE Failed
        ELSE IF c = QUOTE /\ first THEN parse_member(s, j, kind, got)
        ELSE Failed

\* deserialize_struct for a struct written as a JSON object (the inputs hold
\* no JSON array)
parse_struct(s, i, kind) ==
    LET j == parse_whitespace(s, i) IN
    IF At(s, j) = "{" THEN parse_members(s, j + 1, TRUE, kind, <<>>) ELSE Failed

\* Notification::from_json: serde_json::from_str, one value and then only blanks
from_json(input) ==
    LET value == parse_struct(input, 1, "Notification") IN
    IF value.ok /\ At(input, parse_whitespace(input, value.pos)) = EOF
    THEN Ok(value.val) ELSE Err

\* StreamDeserializer::next, iterated: values until the end of the input; after
\* the first error the reader's slice is cut at the error and the stream ends
RECURSIVE deserialize_stream(_, _, _)
deserialize_stream(s, i, acc) ==
    LET j == parse_whitespace(s, i) IN
    IF At(s, j) = EOF THEN acc
    ELSE LET value == parse_struct(s, j, "Notification") IN
         IF value.ok THEN deserialize_stream(s, value.pos, Append(acc, Ok(value.val)))
         ELSE Append(acc, Err)

\* a decoder that returns the first value only
from_json_multi_first_only(input) ==
    LET all == deserialize_stream(input, 1, <<>>) IN
    IF all = <<>> THEN <<>> ELSE <<all[1]>>

\* Notification::from_json_multi
from_json_multi(input) == deserialize_stream(input, 1, <<>>)

(***************************************************************************)
(* State.                                                                  *)
(***************************************************************************)
VARIABLES
    \* signing and validation of one message
    sg_pc,          \* "message", "signed", "validated"
    sg_crm,         \* the ClientReadyMessage handed to the client
    sg_key,         \* the client's master Key
    sg_note,        \* the Notification to_notification returned
    sg_probe,       \* one validation of the notification and its verdict
    \* the wire codec applied to one input
    cd_pc,          \* "start", "encoded", "parsed", "framed", "decoded"
    cd_items,       \* the values written into the input, in order
    cd_sep,         \* the blanks written after each value
    cd_input,       \* the input string
    cd_results,     \* what the decoder returned
    \* the server's routing core
    interface_rx,   \* ingress queue of raw frames (mpsc channel)
    frames_in,      \* every frame enqueued so far, as the values written into it
    frames_done,    \* number of frames the validator has taken
    decoded,        \* every notification the validator decoded, with its place
    bus,            \* per endpoint, every send of the validator on its broadcast channel and its result
    keys_iter,      \* per endpoint, the iteration order of its keys map
    receivers,      \* per endpoint, whether a receiver of its broadcast channel exists
    \* the shutdown coordinator and the tasks watching it
    shutdown_tx,    \* the internal watch channel: value and version
    listen_pc,      \* listen_for_shutdown: "select", "sleep", "done"
    cause,          \* the select branch that completed
    signals,        \* OS signals delivered to the process
    external,       \* the host's watch channel given to start_client / start_server
    task_pc,        \* per task: "spawned", "loop", "stopped"
    task_rx,        \* per task: the version its receiver has seen, or the value it last read
    task_late,      \* per task: whether it first ran after the flag was set
    \* one run of a start function (start_client, start_client_arc, start_server)
    config,         \* the program run, its interfaces, the listener's tls flag, the client's host url
    start_pc,       \* "Configured", "Starting", "Running", "ShuttingDown", "Drained", "Failed"
    setup_left,     \* the tasks the start function has still to spawn, in order
    run_flag,       \* the internal watch channel: value, version, closed
    run_pc,         \* per spawned task, where it is
    produced,       \* number of messages handed to the ingress so far
    ingress,        \* the ingress queue or shared list: messages not yet taken
    ingress_closed, \* the host dropped the sender of the ingress queue
    bus_log,        \* every value a broadcast send stored on the bus, in order
    rx_pos,         \* per bus subscriber, how many entries of bus_log lie before its cursor
    sent,           \* per bus subscriber, what it has transmitted or egressed
    signed,         \* every message the signing task signed, in order
    at_signal,      \* the messages in the shared list when shutdown was signalled
    fifo,           \* whether the named pipe exists at the configured path
    graceful,       \* whether shutdown_server called graceful_shutdown on its handle
    responses,      \* the answer to each POST of the HTTP client, with its path
    replies,        \* the reply of notification_handler to each request it handled
    http_enqueued,  \* every frame notification_handler put on the ingress queue, in order
    file_open,      \* whether write_file holds its file open
    \* the load of one configuration file and the start of its interfaces
    ld_file,        \* the parsed file: kind, key, interface and endpoint tables
    ld_pc,          \* the step validate is at, "done" or "failed"
    ld_next,        \* index of the next table of the current step
    ld_steps,       \* every check and conversion made so far, in order
    ld_built,       \* the interfaces and endpoints converted so far
    ld_result,      \* what the load returned: a configuration or an error
    ld_receive,     \* per interface of the configuration, what receive returned and spawned
    \* the Matrix endpoint: its login and the messages it handles
    mx_session,     \* the session file on disk: "absent", "valid", "corrupt"
    mx_pc,          \* where notify is: the function it is in and the step of it
    mx_trace,       \* the states of the login sub-machine passed so far
    mx_error,       \* the function whose error login returned, or none
    mx_handled,     \* per message taken from the bus: its sub_name, the room validated, the rooms sent to
    \* the signing task of the client, statement by statement
    sn_variant,     \* "queue" (receive_notifications) or "arc" (receive_notifications_arc)
    sn_pc,          \* "select", "drain", "locked", "publish", "sleep", "exited"
    sn_supplied,    \* number of messages the host has supplied
    sn_ingress,     \* the ingress queue or the shared list
    sn_mutex,       \* holder of the mutex of the shared list: "free", "host", "signer"
    sn_local,       \* the message received or the messages drained, not yet published
    sn_bus,         \* the messages published on the client bus, in order
    sn_flag,        \* whether shutdown has been signalled
    sn_passed,      \* the messages that were waiting when a timer branch completed
    \* one subscriber of a broadcast channel that the sender outruns
    lg_task,        \* the subscriber: the function whose loop receives
    lg_pc,          \* "loop" or "exited"
    lg_published,   \* number of values sent on the channel
    lg_cursor,      \* number of values that lie before the cursor of the receiver
    lg_done,        \* number of values the subscriber has egressed
    lg_missed,      \* the values the receiver skipped
    lg_lagged,      \* number of Lagged results the receiver returned
    \* two endpoints of a server whose egress may fail
    eg_kind,        \* per endpoint, the function that runs its loop
    eg_pc,          \* per endpoint task: "loop" or "exited"
    eg_sent,        \* number of notifications the validator has handled
    eg_bus,         \* per endpoint, the values sent on its channel
    eg_cursor,      \* per endpoint, how many values of its channel the task has received
    eg_out,         \* per endpoint, the messages egressed
    eg_failed,      \* per endpoint, the messages whose egress failed
    \* the tasks of a client on the workers of the runtime
    sc_workers,     \* number of worker threads of the runtime
    sc_https,       \* number of HTTP client interfaces, each with one start_sending task
    sc_state,       \* per task: "ready", "running" or "waiting"
    sc_supplied,    \* number of messages the host has sent on the ingress queue
    sc_ingress,     \* number of messages waiting in the ingress queue
    sc_bus,         \* number of notifications published on the client bus
    sc_cursor,      \* per start_sending task, how many notifications it has received
    sc_spins,       \* per start_sending task, the iterations it ended without suspending
    \* the server's interface ingress queue: mpsc::channel(CHANNEL_BUFFER), its senders and the validator
    iq_queue,       \* the frames in the queue, oldest first
    iq_waiters,     \* the connections whose send waits for a permit, first come first
    iq_task,        \* per connection: idle, waiting (for a permit) or granted
    iq_held,        \* per connection: the frame its sender holds while it waits
    iq_arrived,     \* per connection: the number of frames that arrived
    iq_http_seq,    \* the number of requests the HTTP interface was handed
    iq_recv,        \* per connection: the number of the last frame the validator took
    iq_recv_k,      \* the arrival index of the last HTTP frame the validator took
    \* one message on its way from the client to an endpoint's bus
    tr_pc,          \* the stage the message is at
    tr_route,       \* the interface it takes: pipe or http
    tr_crm,         \* the ClientReadyMessage the host supplied
    tr_note,        \* the Notification the client signed
    tr_wire,        \* the characters the client interface sends
    tr_frame,       \* the string the server interface puts in the ingress queue
    tr_decoded,     \* the results of the validator's from_json_multi
    tr_bus          \* the ValidatedNotifications sent to the endpoint

signVars == <<sg_pc, sg_crm, sg_key, sg_note, sg_probe>>
codecVars == <<cd_pc, cd_items, cd_sep, cd_input, cd_results>>
serverVars == <<interface_rx, frames_in, frames_done, decoded, bus, keys_iter, receivers>>
shutdownVars == <<shutdown_tx, listen_pc, cause, signals, external, task_pc, task_rx, task_late>>
runVars == <<config, start_pc, setup_left, run_flag, run_pc, produced, ingress, ingress_closed,
             bus_log, rx_pos, sent, signed, at_signal, fifo, graceful, responses,
             replies, http_enqueued, file_open>>
loadVars == <<ld_file, ld_pc, ld_next, ld_steps, ld_built, ld_result, ld_receive>>
matrixVars == <<mx_session, mx_pc, mx_trace, mx_error, mx_handled>>
signerVars == <<sn_variant, sn_pc, sn_supplied, sn_ingress, sn_mutex, sn_local, sn_bus, sn_flag, sn_passed>>
lagVars == <<lg_task, lg_pc, lg_published, lg_cursor, lg_done, lg_missed, lg_lagged>>
egressVars == <<eg_kind, eg_pc, eg_sent, eg_bus, eg_cursor, eg_out, eg_failed>>
schedVars == <<sc_workers, sc_https, sc_state, sc_supplied, sc_ingress, sc_bus, sc_cursor, sc_spins>>
ingressVars == <<iq_queue, iq_waiters, iq_task, iq_held, iq_arrived, iq_http_seq, iq_recv, iq_recv_k>>
transitVars == <<tr_pc, tr_route, tr_crm, tr_note, tr_wire, tr_frame, tr_decoded, tr_bus>>
detailVars == <<signerVars, lagVars, egressVars, schedVars, ingressVars, transitVars>>
coreVars == <<signVars, codecVars, serverVars, shutdownVars, runVars, loadVars, matrixVars>>
vars == <<coreVars, detailVars>>

None == "none"

\* the parts of the state a specification does not use
SignIdle == sg_pc = "idle" /\ sg_crm = None /\ sg_key = None /\ sg_note = None /\ sg_probe = None
CodecIdle == cd_pc = "idle" /\ cd_items = <<>> /\ cd_sep = <<>> /\ cd_input = <<>> /\ cd_results = <<>>
ServerIdle ==
    /\ interface_rx = <<>> /\ frames_in = <<>> /\ frames_done = 0
    /\ decoded = <<>> /\ bus = <<>> /\ keys_iter = <<>> /\ receivers = <<>>
ShutdownIdle ==
    /\ shutdown_tx = None /\ listen_pc = "idle" /\ cause = None /\ signals = {}
    /\ external = None /\ task_pc = <<>> /\ task_rx = <<>> /\ task_late = <<>>
RunIdle ==
    /\ config = None /\ start_pc = "idle" /\ setup_left = <<>> /\ run_flag = None
    /\ run_pc = <<>> /\ produced = 0 /\ ingress = <<>> /\ ingress_closed = FALSE
    /\ bus_log = <<>> /\ rx_pos = <<>> /\ sent = <<>> /\ signed = <<>> /\ at_signal = {}
    /\ fifo = FALSE /\ graceful = FALSE /\ responses = <<>>
    /\ replies = <<>> /\ http_enqueued = <<>> /\ file_open = FALSE
LoadIdle ==
    /\ ld_file = None /\ ld_pc = "idle" /\ ld_next = 0 /\ ld_steps = <<>>
    /\ ld_built = None /\ ld_result = None /\ ld_receive = <<>>
MatrixIdle ==
    /\ mx_session = None /\ mx_pc = <<"idle">> /\ mx_trace = <<>> /\ mx_error = None /\ mx_handled = <<>>
SignerIdle ==
    /\ sn_variant = None /\ sn_pc = "idle" /\ sn_supplied = 0 /\ sn_ingress = <<>> /\ sn_mutex = "free"
    /\ sn_local = <<>> /\ sn_bus = <<>> /\ sn_flag = FALSE /\ sn_passed = {}
LagIdle ==
    /\ lg_task = None
    /\ lg_pc = "idle"
    /\ lg_published = 0
    /\ lg_cursor = 0
    /\ lg_done = 0
    /\ lg_missed = {}
    /\ lg_lagged = 0
EgressIdle ==
    /\ eg_kind = <<>>
    /\ eg_pc = <<>>
    /\ eg_sent = 0
    /\ eg_bus = <<>>
    /\ eg_cursor = <<>>
    /\ eg_out = <<>>
    /\ eg_failed = <<>>
SchedIdle ==
    /\ sc_workers = 0
    /\ sc_https = 0
    /\ sc_state = <<>>
    /\ sc_supplied = 0
    /\ sc_ingress = 0
    /\ sc_bus = 0
    /\ sc_cursor = <<>>
    /\ sc_spins = <<>>
IngressIdle ==
    /\ iq_queue = <<>>
    /\ iq_waiters = <<>>
    /\ iq_task = <<>>
    /\ iq_held = <<>>
    /\ iq_arrived = <<>>
    /\ iq_http_seq = 0
    /\ iq_recv = <<>>
    /\ iq_recv_k = 0
TransitIdle ==
    /\ tr_pc = "idle"
    /\ tr_route = "none"
    /\ tr_crm = "none"
    /\ tr_note = "none"
    /\ tr_wire = <<>>
    /\ tr_frame = <<>>
    /\ tr_decoded = <<>>
    /\ tr_bus = <<>>
DetailIdle == SignerIdle /\ LagIdle /\ EgressIdle /\ SchedIdle /\ IngressIdle /\ TransitIdle
CoreIdle == SignIdle /\ CodecIdle /\ ServerIdle /\ ShutdownIdle /\ RunIdle /\ LoadIdle /\ MatrixIdle

(***************************************************************************)
(* Signing and validation (notifications.rs).                              *)
(***************************************************************************)
\* master keys: Key::from_bytes of a 32-byte string
MasterKeys == {Key_from_bytes("M1"), Key_from_bytes("M2")}

\* message texts hold letters and digits
SignAlphabet == {"a", "1"}
SignNames == {<<"a">>, <<"b">>}
SignMessages == {Message(text, time) : text \in StringsOver(SignAlphabet), time \in 0..MaxTime}

SignInit ==
    /\ sg_pc = "message"
    /\ sg_crm \in {ClientReadyMessage(name, message) : name \in SignNames, message \in SignMessages}
    /\ sg_key \in MasterKeys
    /\ sg_note = None
    /\ sg_probe = None
    /\ CodecIdle /\ ServerIdle /\ ShutdownIdle /\ RunIdle /\ LoadIdle /\ MatrixIdle /\ DetailIdle

\* the client signs the message: ClientReadyMessage::to_notification
Sign ==
    /\ sg_pc = "message"
    /\ sg_note' = to_notification(sg_crm, sg_key)
    /\ sg_pc' = "signed"
    /\ UNCHANGED <<sg_crm, sg_key, sg_probe, codecVars, serverVars, shutdownVars, runVars, loadVars, matrixVars, detailVars>>

\* a server holding master key `master` validates the notification for `name`
Validate(name, master) ==
    /\ sg_pc = "signed"
    /\ sg_probe' = [name |-> name, master |-> master, message |-> sg_note.message,
                    valid |-> validate(sg_note, Key_generate(name, master))]
    /\ sg_pc' = "validated"
    /\ UNCHANGED <<sg_crm, sg_key, sg_note, codecVars, serverVars, shutdownVars, runVars, loadVars, matrixVars, detailVars>>

\* the key field arrives with another message: validation under the signing key
ValidateAltered(message) ==
    /\ sg_pc = "signed"
    /\ message # sg_note.message
    /\ sg_probe' = [name |-> sg_crm.notification_name, master |-> sg_key, message |-> message,
                    valid |-> validate([message |-> message, key |-> sg_note.key],
                                       Key_generate(sg_crm.notification_name, sg_key))]
    /\ sg_pc' = "validated"
    /\ UNCHANGED <<sg_crm, sg_key, sg_note, codecVars, serverVars, shutdownVars, runVars, loadVars, matrixVars, detailVars>>

SignNext ==
    \/ Sign
    \/ \E name \in SignNames, master \in MasterKeys : Validate(name, master)
    \/ \E message \in SignMessages : ValidateAltered(message)

SpecSign == SignInit /\ [][SignNext]_vars

\* C1: a notification signed for name N under master M validates against
\* Key::generate(N, M) and against no key of another name or another master.
C1_SignedValidatesOnlyOwnKey ==
    (sg_pc = "validated" /\ sg_probe.message = sg_crm.message)
        => (sg_probe.valid <=> (sg_probe.name = sg_crm.notification_name /\ sg_probe.master = sg_key))

C1_Witness ==
    /\ sg_pc = "validated"
    /\ sg_probe.message = sg_crm.message
    /\ sg_probe.valid

\* C4: under a fixed notification key, the key field signed for (text1, time1)
\* validates for no message that differs from it in text, in time or in both.
C4_MacBindsTextAndTime ==
    (sg_pc = "validated" /\ sg_probe.message # sg_crm.message) => ~sg_probe.valid

(***************************************************************************)
(* The wire codec applied to inputs: one notification encoded and parsed   *)
(* back, and a batch of concatenated values decoded as a stream.           *)
(***************************************************************************)
\* most values a batch holds
MaxBatch == 3

\* texts and keys hold the characters JSON escapes or gives a meaning to
CodecAlphabet == {"a", QUOTE, BACKSLASH, "}", NEWLINE}
CodecKeys ==
    {<<>>, <<"k", QUOTE>>, <<BACKSLASH>>,
     Key_to_hex(Key_generate(<<"h", "i", "1">>, Key_generate(<<"a">>, Key_from_bytes("M1"))))}
CodecNotes ==
    {[message |-> Message(text, time), key |-> key] :
        text \in StringsOver(CodecAlphabet), time \in 0..MaxTime, key \in CodecKeys}

\* a value written into an input: a notification, or characters that are no notification
NoteItem(note) == [kind |-> "note", note |-> note]
BadItem(chars) == [kind |-> "bad", chars |-> chars]

\* malformed values: an object without its fields, an object that is never
\* closed, a word, and a notification without its key
BadValues ==
    {<<"{", "}">>,
     <<"{", QUOTE, "k", "e", "y", QUOTE, ":", QUOTE, "k", QUOTE>>,
     <<"b", "a", "d">>,
     <<"{">> \o json_string(F_message) \o <<":">> \o message_to_json(Message(<<"a">>, 1)) \o <<"}">>}

BatchNotes ==
    {[message |-> Message(<<"a">>, 1), key |-> <<"k">>],
     [message |-> Message(<<QUOTE, "}">>, 10), key |-> <<>>]}
BatchItems == {NoteItem(note) : note \in BatchNotes} \cup {BadItem(chars) : chars \in BadValues}

Separators == {<<>>, <<" ">>, <<NEWLINE, " ">>}

\* the characters of one value
ItemChars(item) == IF item.kind = "note" THEN to_json(item.note) ELSE item.chars

\* the concatenation of the values, each followed by the blanks sep
RECURSIVE Frame(_, _)
Frame(items, sep) ==
    IF items = <<>> THEN <<>> ELSE ItemChars(Head(items)) \o sep \o Frame(Tail(items), sep)

SeqsUpTo(S, n) == UNION {[1..k -> S] : k \in 0..n}

CodecInit ==
    /\ cd_pc = "start"
    /\ cd_items \in {<<NoteItem(note)>> : note \in CodecNotes} \cup SeqsUpTo(BatchItems, MaxBatch)
    /\ cd_sep \in Separators
    /\ cd_input = <<>>
    /\ cd_results = <<>>
    /\ SignIdle /\ ServerIdle /\ ShutdownIdle /\ RunIdle /\ LoadIdle /\ MatrixIdle /\ DetailIdle

\* Notification::to_json of a single notification
CodecToJson ==
    /\ cd_pc = "start"
    /\ Len(cd_items) = 1 /\ cd_items[1].kind = "note" /\ cd_sep = <<>>
    /\ cd_input' = to_json(cd_items[1].note)
    /\ cd_pc' = "encoded"
    /\ UNCHANGED <<cd_items, cd_sep, cd_results, signVars, serverVars, shutdownVars, runVars, loadVars, matrixVars, detailVars>>

\* Notification::from_json of the encoding
CodecFromJson ==
    /\ cd_pc = "encoded"
    /\ cd_results' = <<from_json(cd_input)>>
    /\ cd_pc' = "parsed"
    /\ UNCHANGED <<cd_items, cd_sep, cd_input, signVars, serverVars, shutdownVars, runVars, loadVars, matrixVars, detailVars>>

\* the values arrive concatenated in one string
CodecFrame ==
    /\ cd_pc = "start"
    /\ cd_input' = Frame(cd_items, cd_sep)
    /\ cd_pc' = "framed"
    /\ UNCHANGED <<cd_items, cd_sep, cd_results, signVars, serverVars, shutdownVars, runVars, loadVars, matrixVars, detailVars>>

\* Notification::from_json_multi of the string
CodecFromJsonMulti ==
    /\ cd_pc = "framed"
    /\ cd_results' = from_json_multi(cd_input)
    /\ cd_pc' = "decoded"
    /\ UNCHANGED <<cd_items, cd_sep, cd_input, signVars, serverVars, shutdownVars, runVars, loadVars, matrixVars, detailVars>>

CodecNext == CodecToJson \/ CodecFromJson \/ CodecFrame \/ CodecFromJsonMulti

SpecCodec == CodecInit /\ [][CodecNext]_vars

AllNotes(items) == \A k \in 1..Len(items) : items[k].kind = "note"

\* C5: from_json_multi of concatenated encodings of notifications, blanks
\* optional between them, returns one Ok per value, in input order, and
\* nothing else.
C5_MultiDecodeWellFormed ==
    (cd_pc = "decoded" /\ AllNotes(cd_items))
        => cd_results = [k \in 1..Len(cd_items) |-> Ok(cd_items[k].note)]

C5_Witness ==
    /\ cd_pc = "decoded"
    /\ Len(cd_items) = 3 /\ AllNotes(cd_items)
    /\ cd_items[1] # cd_items[2]
    /\ cd_sep = <<>>
    /\ Len(cd_results) = 3

\* C6: a malformed value at position k gives an Err at position k and does
\* not abort decoding: every well-formed value of the batch, also after
\* position k, is returned as Ok.
C6_ErrorDoesNotAbortBatch ==
    cd_pc = "decoded"
        => /\ Len(cd_results) = Len(cd_items)
           /\ \A k \in 1..Len(cd_items) :
                IF cd_items[k].kind = "note"
                THEN cd_results[k] = Ok(cd_items[k].note)
                ELSE ~cd_results[k].ok

\* C7: from_json(to_json(n)) succeeds and returns n, for every text, time and key.
C7_JsonRoundTrip ==
    cd_pc = "parsed" => cd_results = <<Ok(cd_items[1].note)>>

C7_Witness ==
    /\ cd_pc = "parsed"
    /\ cd_items[1].note.message.text = <<QUOTE, BACKSLASH>>
    /\ cd_items[1].note.message.time = 10
    /\ cd_items[1].note.key = <<"k", QUOTE>>
    /\ cd_results[1].ok

(***************************************************************************)
(* The server's routing core (server.rs, endpoints.rs, endpoints/file.rs,  *)
(* endpoints/matrix.rs).                                                   *)
(***************************************************************************)
\* most values the interfaces deliver in one run, over all frames
MaxNotes == 3
\* capacity of the ingress queue
CHANNEL_BUFFER == 200

\* the master key of the server's configuration
server_key == Key_from_bytes("M1")

\* the configured endpoints, in the order of ServerConfiguration::endpoints:
\* two file endpoints and one Matrix endpoint with two rooms
Endpoints == <<"E1", "E2", "MX">>
EndpointSet == {Endpoints[k] : k \in 1..Len(Endpoints)}
FileNotifications == [E1 |-> {<<"a">>, <<"b">>}, E2 |-> {<<"b">>, <<"c">>}]
Room1 == <<"#", "r", "1">>
Room2 == <<"#", "r", "2">>
MatrixRooms == (Room1 :> {<<"n", "1">>, <<"n", "3">>}) @@ (Room2 :> {<<"n", "2">>, <<"n", "3">>})


\* FileEndpoint::generate_keys: every notification name's key under the empty sub-name
FileEndpoint_generate_keys(notifications, hash_key) ==
    (<<>> :> {Key_generate(notification_name, hash_key) : notification_name \in notifications})

\* a Matrix endpoint that gives every room the keys of all rooms
MatrixEndpoint_generate_keys_shared(rooms, hash_key) ==
    [room \in DOMAIN rooms |->
        {Key_generate(notification_name, hash_key) :
            notification_name \in UNION {rooms[r] : r \in DOMAIN rooms}}]

\* MatrixEndpoint::generate_keys: per room, the keys of the room's notification names
MatrixEndpoint_generate_keys(rooms, hash_key) ==
    [room \in DOMAIN rooms |->
        {Key_generate(notification_name, hash_key) : notification_name \in rooms[room]}]

\* EndpointChannel::keys, as ServerConfiguration::endpoint_channels built them
EndpointKeys(endpoint) ==
    IF endpoint = "MX" THEN MatrixEndpoint_generate_keys(MatrixRooms, server_key)
    ELSE FileEndpoint_generate_keys(FileNotifications[endpoint], server_key)

\* the orders in which a map with these keys may be iterated
IterationOrders(S) ==
    {order \in [1..Cardinality(S) -> S] : \A x \in S : \E k \in DOMAIN order : order[k] = x}

\* what clients and other peers write to the server's interfaces
Hi == Message(<<"h", "i">>, 1)
Yo == Message(<<"y", "o">>, 2)
SignedItem(name, message, master) ==
    [kind |-> "note", note |-> to_notification(ClientReadyMessage(name, message), master),
     name |-> name, master |-> master, genuine |-> TRUE]
ServerItems ==
    {SignedItem(name, Hi, server_key) : name \in {<<"a">>, <<"d">>, <<"n", "1">>}}
    \cup {SignedItem(name, Yo, server_key) : name \in {<<"b">>, <<"n", "3">>}}
    \cup {\* signed under another master key
          SignedItem(<<"b">>, Hi, Key_from_bytes("M2")),
          BadItem(<<"{", "}">>)}

\* number of values in the frames
RECURSIVE CountItems(_)
CountItems(frames) == IF frames = <<>> THEN 0 ELSE Len(Head(frames)) + CountItems(Tail(frames))

ServerInit ==
    /\ interface_rx = <<>>
    /\ frames_in = <<>>
    /\ frames_done = 0
    /\ decoded = <<>>
    /\ bus = [endpoint \in EndpointSet |-> <<>>]
    /\ keys_iter \in {order \in [EndpointSet -> UNION {IterationOrders(DOMAIN EndpointKeys(e)) : e \in EndpointSet}] :
                        \A endpoint \in EndpointSet :
                            order[endpoint] \in IterationOrders(DOMAIN EndpointKeys(endpoint))}
    /\ receivers = [endpoint \in EndpointSet |-> TRUE]
    /\ SignIdle /\ CodecIdle /\ ShutdownIdle /\ RunIdle /\ LoadIdle /\ MatrixIdle /\ DetailIdle
\* an interface receiver enqueues one raw frame, the values its peers wrote one
\* after the other: tx.send(read_string) in read_pipe
InterfaceReceive(items) ==
    /\ CountItems(frames_in) + Len(items) <= MaxNotes
    /\ Len(interface_rx) < CHANNEL_BUFFER
    /\ interface_rx' = Append(interface_rx, Frame(items, <<>>))
    /\ frames_in' = Append(frames_in, items)
    /\ UNCHANGED <<frames_done, decoded, bus, keys_iter, receivers, signVars, codecVars, shutdownVars, runVars, loadVars, matrixVars, detailVars>>

\* a value on an endpoint's bus, with the place it was decoded at: frame and position
BusEntry(sub_name, note, src) == [vn |-> ValidatedNotification(sub_name, note.message), src |-> src]

\* a validator that sends every notification to every sub-name
endpoint_sends_unvalidated(endpoint, order, note, src) ==
    [k \in 1..Len(order) |-> BusEntry(order[k], note, src)]

\* a validator that sends a second time for a key-set that validates
endpoint_sends_twice(endpoint, order, note, src) ==
    LET matching == SelectSeq(order, LAMBDA sub_name : validate_set(note, EndpointKeys(endpoint)[sub_name]))
    IN  [k \in 1..(2 * Len(matching)) |-> BusEntry(matching[(k + 1) \div 2], note, src)]

\* the inner loops of process_incoming_notifications for one notification and
\* one endpoint: a send for each (sub_name, keys) of endpoint.keys(), in the
\* map's iteration order, whose key-set validates the notification
endpoint_sends(endpoint, order, note, src) ==
    LET matching == SelectSeq(order, LAMBDA sub_name : validate_set(note, EndpointKeys(endpoint)[sub_name]))
    IN  [k \in 1..Len(matching) |-> BusEntry(matching[k], note, src)]

\* a validator that handles the notifications of a frame last to first
RECURSIVE frame_sends_reversed(_, _, _, _, _)
frame_sends_reversed(endpoint, order, notifications, frame, i) ==
    IF i > Len(notifications) THEN <<>>
    ELSE frame_sends_reversed(endpoint, order, notifications, frame, i + 1)
         \o (IF notifications[i].ok
             THEN endpoint_sends(endpoint, order, notifications[i].val, <<frame, i>>) ELSE <<>>)

\* the loop over the decoded results of one frame, from result i on: what it
\* sends on one endpoint's channel; an Err is logged and skipped
RECURSIVE frame_sends(_, _, _, _, _)
frame_sends(endpoint, order, notifications, frame, i) ==
    IF i > Len(notifications) THEN <<>>
    ELSE (IF notifications[i].ok
          THEN endpoint_sends(endpoint, order, notifications[i].val, <<frame, i>>) ELSE <<>>)
         \o frame_sends(endpoint, order, notifications, frame, i + 1)

\* broadcast::Sender::send of each entry: Ok when a receiver exists, Err
\* otherwise; either way the loops go on
channel_send(entries, has_receiver) ==
    [k \in 1..Len(entries) |-> [vn |-> entries[k].vn, src |-> entries[k].src, ok |-> has_receiver]]

\* a validator that gives up on the notifications of a frame once a send has failed
frame_publishes_until_error(notifications, frame) ==
    [endpoint \in EndpointSet |->
        IF \E k \in 1..Len(Endpoints) :
                /\ ~receivers[Endpoints[k]]
                /\ frame_sends(Endpoints[k], keys_iter[Endpoints[k]], notifications, frame, 1) # <<>>
                /\ \E l \in 1..Len(Endpoints) : l > k /\ Endpoints[l] = endpoint
        THEN <<>>
        ELSE channel_send(frame_sends(endpoint, keys_iter[endpoint], notifications, frame, 1),
                          receivers[endpoint])]

\* what the loops over one frame send on the channel of every endpoint
frame_publishes(notifications, frame) ==
    [endpoint \in EndpointSet |->
        channel_send(frame_sends(endpoint, keys_iter[endpoint], notifications, frame, 1),
                     receivers[endpoint])]

\* the notifications decoded from a frame, each with its place
DecodedOf(notifications, frame) ==
    LET oks == SelectSeq([i \in 1..Len(notifications) |-> i], LAMBDA i : notifications[i].ok)
    IN  [k \in 1..Len(oks) |-> [src |-> <<frame, oks[k]>>, note |-> notifications[oks[k]].val]]

\* one iteration of process_incoming_notifications: take a frame, decode it,
\* and offer every decoded notification to every endpoint
process_incoming_notifications ==
    /\ interface_rx # <<>>
    /\ LET msg == Head(interface_rx)
           notifications == from_json_multi(msg)
           frame == frames_done + 1
       IN  /\ bus' = [endpoint \in EndpointSet |->
                        bus[endpoint] \o frame_publishes(notifications, frame)[endpoint]]
           /\ decoded' = decoded \o DecodedOf(notifications, frame)
           /\ frames_done' = frame
    /\ interface_rx' = Tail(interface_rx)
    /\ UNCHANGED <<frames_in, keys_iter, receivers, signVars, codecVars, shutdownVars, runVars, loadVars, matrixVars, detailVars>>

ServerNext ==
    \/ \E n \in 1..(MaxNotes - CountItems(frames_in)) : \E items \in [1..n -> ServerItems] :
            InterfaceReceive(items)
    \/ process_incoming_notifications

Spec == ServerInit /\ [][ServerNext]_vars

\* the notification's key is the MAC of its message under one of the keys of
\* the endpoint's key-set for sub_name
MatchesKeySet(note, endpoint, sub_name) ==
    \E key \in EndpointKeys(endpoint)[sub_name] :
        note.key = Key_to_hex(Key_generate(note.message.text \o Dec(note.message.time), key))
MatchesEndpoint(note, endpoint) ==
    \E sub_name \in DOMAIN EndpointKeys(endpoint) : MatchesKeySet(note, endpoint, sub_name)

\* the bus entries of an endpoint that stem from one decoded notification
EntriesOf(endpoint, src) == SelectSeq(bus[endpoint], LAMBDA entry : entry.src = src)
PublishedOn(endpoint, src) == EntriesOf(endpoint, src) # <<>>

\* the value an interface wrote that a decoded notification stems from
Origin(d) == frames_in[d.src[1]][d.src[2]]
GenuineFor(d, name) ==
    Origin(d).genuine /\ Origin(d).master = server_key /\ Origin(d).name = name

DecodedSet == {decoded[k] : k \in 1..Len(decoded)}

\* C2: a decoded notification is published on endpoint E's bus only if its key
\* matches a key of one of E's key-sets, and at least once whenever it does;
\* one matching no key-set of any endpoint is published on no bus.  With
\* E1 = {a, b} and E2 = {b, c}: signed for b on both buses, for a only on
\* E1's, for d on neither.
C2_PublishedIffKeyMatches ==
    /\ \A endpoint \in EndpointSet : \A k \in 1..Len(bus[endpoint]) :
            \E d \in DecodedSet :
                /\ d.src = bus[endpoint][k].src
                /\ bus[endpoint][k].vn.message = d.note.message
                /\ bus[endpoint][k].vn.sub_name \in DOMAIN EndpointKeys(endpoint)
                /\ MatchesKeySet(d.note, endpoint, bus[endpoint][k].vn.sub_name)
    /\ \A d \in DecodedSet : \A endpoint \in EndpointSet :
            PublishedOn(endpoint, d.src) <=> MatchesEndpoint(d.note, endpoint)
    /\ \A d \in DecodedSet :
            /\ GenuineFor(d, <<"b">>) => PublishedOn("E1", d.src) /\ PublishedOn("E2", d.src)
            /\ GenuineFor(d, <<"a">>) => PublishedOn("E1", d.src) /\ ~PublishedOn("E2", d.src)
            /\ GenuineFor(d, <<"d">>) => \A endpoint \in EndpointSet : ~PublishedOn(endpoint, d.src)

C2_Witness ==
    /\ \E d \in DecodedSet : GenuineFor(d, <<"b">>) /\ PublishedOn("E1", d.src) /\ PublishedOn("E2", d.src)
    /\ \E d \in DecodedSet : GenuineFor(d, <<"a">>) /\ PublishedOn("E1", d.src)
    /\ \E d \in DecodedSet : GenuineFor(d, <<"d">>)

\* C3: on the Matrix endpoint, a notification signed for a name that only
\* room r1 subscribes to yields exactly one ValidatedNotification, with
\* sub_name = r1, and none with the sub_name of a room not subscribed to it.
C3_MatrixSubName ==
    \A d \in DecodedSet :
        GenuineFor(d, <<"n", "1">>)
            => /\ Len(EntriesOf("MX", d.src)) = 1
               /\ EntriesOf("MX", d.src)[1].vn = ValidatedNotification(Room1, d.note.message)

C3_Witness ==
    /\ \E d \in DecodedSet : GenuineFor(d, <<"n", "1">>) /\ Len(EntriesOf("MX", d.src)) = 1
    /\ \E d \in DecodedSet : GenuineFor(d, <<"n", "3">>) /\ Len(EntriesOf("MX", d.src)) = 2

\* the place src1 is not after the place src2 in the ingress stream
NotAfter(src1, src2) == src1[1] < src2[1] \/ (src1[1] = src2[1] /\ src1[2] <= src2[2])

\* C8: what is published on one endpoint bus is in the order of the frames in
\* the ingress queue and, within a frame, in decode order.
C8_BusKeepsIngressOrder ==
    \A endpoint \in EndpointSet : \A i, j \in 1..Len(bus[endpoint]) :
        i < j => NotAfter(bus[endpoint][i].src, bus[endpoint][j].src)

C8_Witness ==
    \E i, j \in 1..Len(bus["E1"]) :
        /\ i < j
        /\ bus["E1"][i].src[1] = bus["E1"][j].src[1]
        /\ bus["E1"][i].src[2] < bus["E1"][j].src[2]
        /\ Len(bus["E1"]) = 3
        /\ bus["E1"][3].src[1] = 2

(***************************************************************************)
(* The shutdown coordinator (shutdown.rs) of a running client              *)
(* (client.rs: start_client) and the tasks that hold a receiver of its     *)
(* watch channel.  A watch channel is a value and a version; a receiver    *)
(* remembers the version it has seen.                                      *)
(***************************************************************************)
\* most values the host sends on its own shutdown channel
MaxHostSends == 2

\* tasks that await shutdown_rx.changed() in a select, and tasks that read
\* *shutdown.borrow() at the top of their loop
Awaiters == {"receive_notifications", "write_pipe"}
Readers == {"start_sending"}
Tasks == Awaiters \cup Readers
Signals == {"SIGTERM", "SIGINT"}

\* watch::channel(false): the version every receiver made from it starts with
InitialVersion == 0

\* a receiver made by Sender::subscribe, which has seen the current version
Receiver_subscribe(version) == shutdown_tx.version

\* Receiver::clone: the clone has seen what the receiver it is cloned from has seen
Receiver_clone(version) == version

\* receivers of the internal channel that still exist: one per task that has not ended
ReceiverCount == Cardinality({t \in Tasks : task_pc[t] \in {"spawned", "loop"}})

\* watch::Sender::send: refused when no receiver is left, else the value is
\* stored and the version moves on
Sender_send(channel, value) ==
    IF ReceiverCount = 0 THEN channel
    ELSE [channel EXCEPT !.value = value, !.version = @ + 1]

\* Receiver::borrow: the value now in the channel
Receiver_borrow(channel) == IF channel.value THEN "true" ELSE "false"

\* Receiver::changed completes: a version not yet seen, or the sender is gone
ChangedReady(channel, seen) == channel.version # seen \/ channel.closed

ShutdownInit ==
    /\ shutdown_tx = [value |-> FALSE, version |-> InitialVersion, closed |-> FALSE]
    /\ listen_pc = "select"
    /\ cause = None
    /\ signals = {}
    /\ \E given \in BOOLEAN :
            external = [given |-> given, version |-> InitialVersion, seen |-> InitialVersion,
                        closed |-> FALSE, sent |-> FALSE]
    /\ task_pc = [t \in Tasks |-> "spawned"]
    /\ task_rx = [t \in Tasks |-> None]
    /\ task_late = [t \in Tasks |-> FALSE]
    /\ SignIdle /\ CodecIdle /\ ServerIdle /\ RunIdle /\ LoadIdle /\ MatrixIdle /\ DetailIdle

\* the operating system delivers a termination signal to the process
OsSignal(sig) ==
    /\ sig \notin signals
    /\ signals' = signals \cup {sig}
    /\ UNCHANGED <<shutdown_tx, listen_pc, cause, external, task_pc, task_rx, task_late,
                   signVars, codecVars, serverVars, runVars, loadVars, matrixVars, detailVars>>

\* the host sends a value on the shutdown channel it gave to start_client
HostSend ==
    /\ external.given /\ ~external.closed
    /\ external.version < MaxHostSends
    /\ external' = [external EXCEPT !.version = @ + 1, !.sent = TRUE]
    /\ UNCHANGED <<shutdown_tx, listen_pc, cause, signals, task_pc, task_rx, task_late,
                   signVars, codecVars, serverVars, runVars, loadVars, matrixVars, detailVars>>

\* the host drops the sender of its shutdown channel
HostDrop ==
    /\ external.given /\ ~external.closed
    /\ external' = [external EXCEPT !.closed = TRUE]
    /\ UNCHANGED <<shutdown_tx, listen_pc, cause, signals, task_pc, task_rx, task_late,
                   signVars, codecVars, serverVars, runVars, loadVars, matrixVars, detailVars>>

\* listen_for_shutdown, from a completed select branch to the sleep:
\* shutdown_tx.send(true)
ListenSend(branch) ==
    /\ cause' = branch
    /\ shutdown_tx' = Sender_send(shutdown_tx, TRUE)
    /\ listen_pc' = "sleep"

\* select branch sigterm.recv() / sigint.recv()
ListenSignal(sig) ==
    /\ listen_pc = "select"
    /\ sig \in signals
    /\ ListenSend(sig)
    /\ UNCHANGED <<signals, external, task_pc, task_rx, task_late, signVars, codecVars, serverVars, runVars, loadVars, matrixVars, detailVars>>

\* select branch shutdown_rx.changed(), whatever its result
ListenExternal ==
    /\ listen_pc = "select"
    /\ external.given
    /\ ChangedReady(external, external.seen)
    /\ external' = [external EXCEPT !.seen = external.version]
    /\ ListenSend("channel")
    /\ UNCHANGED <<signals, task_pc, task_rx, task_late, signVars, codecVars, serverVars, runVars, loadVars, matrixVars, detailVars>>

\* the sleep is over: listen_for_shutdown returns and the sender is dropped
ListenReturn ==
    /\ listen_pc = "sleep"
    /\ listen_pc' = "done"
    /\ shutdown_tx' = [shutdown_tx EXCEPT !.closed = TRUE]
    /\ UNCHANGED <<cause, signals, external, task_pc, task_rx, task_late, signVars, codecVars, serverVars, runVars, loadVars, matrixVars, detailVars>>

\* a spawned task runs for the first time: an awaiter clones the receiver it
\* was given, which was cloned from the receiver watch::channel returned
TaskStart(t) ==
    /\ task_pc[t] = "spawned"
    /\ task_pc' = [task_pc EXCEPT ![t] = "loop"]
    /\ task_rx' = [task_rx EXCEPT ![t] = IF t \in Awaiters THEN Receiver_clone(InitialVersion) ELSE None]
    /\ task_late' = [task_late EXCEPT ![t] = shutdown_tx.value]
    /\ UNCHANGED <<shutdown_tx, listen_pc, cause, signals, external, signVars, codecVars, serverVars, runVars, loadVars, matrixVars, detailVars>>

\* the select of an awaiter takes its shutdown_rx.changed() branch and breaks
AwaiterChanged(t) ==
    /\ t \in Awaiters
    /\ task_pc[t] = "loop"
    /\ ChangedReady(shutdown_tx, task_rx[t])
    /\ task_rx' = [task_rx EXCEPT ![t] = shutdown_tx.version]
    /\ task_pc' = [task_pc EXCEPT ![t] = "shutdown"]
    /\ UNCHANGED <<shutdown_tx, listen_pc, cause, signals, external, task_late, signVars, codecVars, serverVars, runVars, loadVars, matrixVars, detailVars>>

\* one iteration of start_sending's loop: break if *shutdown.borrow()
ReaderLoop(t) ==
    /\ t \in Readers
    /\ task_pc[t] = "loop"
    /\ task_rx' = [task_rx EXCEPT ![t] = Receiver_borrow(shutdown_tx)]
    /\ task_pc' = [task_pc EXCEPT ![t] = IF Receiver_borrow(shutdown_tx) = "true" THEN "shutdown" ELSE "loop"]
    /\ UNCHANGED <<shutdown_tx, listen_pc, cause, signals, external, task_late, signVars, codecVars, serverVars, runVars, loadVars, matrixVars, detailVars>>

\* a task ends on an error of its own (a closed bus, a failed pipe)
TaskFail(t) ==
    /\ task_pc[t] = "loop"
    /\ task_pc' = [task_pc EXCEPT ![t] = "failed"]
    /\ UNCHANGED <<shutdown_tx, listen_pc, cause, signals, external, task_rx, task_late,
                   signVars, codecVars, serverVars, runVars, loadVars, matrixVars, detailVars>>

ShutdownNext ==
    \/ \E sig \in Signals : OsSignal(sig)
    \/ HostSend
    \/ HostDrop
    \/ \E sig \in Signals : ListenSignal(sig)
    \/ ListenExternal
    \/ ListenReturn
    \/ \E t \in Tasks : TaskStart(t)
    \/ \E t \in Tasks : AwaiterChanged(t)
    \/ \E t \in Tasks : ReaderLoop(t)
    \/ \E t \in Tasks : TaskFail(t)

SpecShutdown == ShutdownInit /\ [][ShutdownNext]_vars

\* C9: the internal shutdown flag starts false and, once set to true, never
\* becomes false again; from then on a task that awaits its change finds the
\* change, and a task that reads the flag reads true.
C9_ShutdownFlagMonotonic ==
    /\ shutdown_tx.value = FALSE
    /\ [][shutdown_tx.value => shutdown_tx'.value]_vars
    /\ [](shutdown_tx.value =>
            \A t \in Awaiters : task_pc[t] = "loop" => ChangedReady(shutdown_tx, task_rx[t]))
    /\ [][\A t \in Readers :
            (shutdown_tx.value /\ task_rx'[t] # task_rx[t])
                => (task_rx'[t] = "true" /\ task_pc'[t] = "shutdown")]_vars

C9_Witness ==
    /\ shutdown_tx.value
    /\ \E t \in Awaiters : task_late[t] /\ task_pc[t] = "shutdown"
    /\ \E t \in Readers : task_late[t] /\ task_pc[t] = "shutdown"

\* C10: the internal shutdown flag becomes true only after an OS termination
\* signal was received or the host changed the value of the external shutdown
\* channel, whatever the host does with that channel.
C10_ShutdownOnlyOnSignalOrHostChange ==
    shutdown_tx.value => (cause \in Signals \/ (cause = "channel" /\ external.sent))

(***************************************************************************)
(* One run of a start function: start_client and start_client_arc          *)
(* (client.rs) and start_server (server.rs), with the tasks they spawn,    *)
(* the broadcast bus between the signing or validating task and its        *)
(* subscribers, and listen_for_shutdown (shutdown.rs).  A broadcast        *)
(* channel is the log of the values stored on it and one cursor per        *)
(* receiver; the log stays shorter than CHANNEL_BUFFER, so no receiver     *)
(* lags.                                                                   *)
(***************************************************************************)
\* most messages handed to the ingress in one run
MaxMessages == 2

Programs == {"start_client", "start_client_arc", "start_server"}
ClientPrograms == {"start_client", "start_client_arc"}

\* the tasks each program spawns
ClientInterfaceTasks == {"start_sending", "write_pipe"}
ServerInterfaceTasks == {"read_pipe", "start_monitoring"}
EndpointTasks == {"write_file"}
Signers == {"receive_notifications", "receive_notifications_arc"}
Validators == {"process_incoming_notifications"}
RunTasks == ClientInterfaceTasks \cup ServerInterfaceTasks \cup EndpointTasks \cup Signers \cup Validators

\* subscribers of the bus: the client's send tasks, the server's notify task
Subscribers == ClientInterfaceTasks \cup EndpointTasks

\* where a task can be once it has ended
Ended == {"exited", "failed", "closed", "stopped"}

\* the task spawned last: the signing task or the validator
MainTask(program) ==
    CASE program = "start_client" -> "receive_notifications"
      [] program = "start_client_arc" -> "receive_notifications_arc"
      [] program = "start_server" -> "process_incoming_notifications"

\* the order in which a start function spawns: interfaces, endpoints, main task
SetupOrder(program, interfaces) ==
    IF program \in ClientPrograms
    THEN interfaces \o <<MainTask(program)>>
    ELSE interfaces \o <<"write_file", MainTask(program)>>

\* client interface lists: at least one interface (ClientConfiguration::validate)
ClientInterfaceLists == {<<"start_sending">>, <<"write_pipe">>, <<"start_sending", "write_pipe">>}
\* server interface lists: the configured interfaces, in the order of the file
ServerInterfaceLists == {<<"start_monitoring", "read_pipe">>}

\* a URL: its authority and the segments of its path
Url(authority, path) == [authority |-> authority, path |-> path]
\* Url::set_path: the whole path is replaced
Url_set_path(url, path) == [url EXCEPT !.path = path]

\* hosts a client interface is configured with
ClientHosts == {Url("127.0.0.1:8080", <<>>), Url("127.0.0.1:8080", <<"pass-it-on">>)}

BASE_PATH == "pass-it-on"
NOTIFICATION_PATH == "notification"

\* the url HttpSocketInterface::send hands to start_sending
send_url(host) == Url_set_path(host, <<"notification">>)

\* the router of start_monitoring: the handler a POST to this path reaches
route_post(path) ==
    IF path = <<BASE_PATH, NOTIFICATION_PATH>> THEN "notification_handler" ELSE "404"

\* the state a task is spawned in: tasks whose first run subscribes, creates
\* or binds are "spawned" until they have run once
FirstPc(t) == IF t \in {"start_sending", "write_file", "read_pipe", "start_monitoring"} THEN "spawned" ELSE "loop"

\* receivers of the internal watch channel that exist: one per task that
\* has not ended, and in start_server the receiver the function itself keeps
WatchReceivers ==
    Cardinality({t \in RunTasks \ Validators : run_pc[t] \notin Ended \cup {"unspawned"}})
        + (IF config.program = "start_server" THEN 1 ELSE 0)

\* receivers of the bus that exist: held by the subscribers that have not ended
BusReceivers == Cardinality({t \in Subscribers : run_pc[t] \notin Ended \cup {"unspawned"}})

\* broadcast::Sender::send: an error when no receiver exists, else the value is stored
broadcast_send(log, values) == IF BusReceivers = 0 THEN log ELSE log \o values

\* the senders of the bus are gone: the signing task owns the only one
BusClosed == \E t \in Signers : run_pc[t] \in Ended

\* shutdown_tx.send(true): an error when no receiver exists
shutdown_send(channel) ==
    IF WatchReceivers = 0 THEN channel
    ELSE [channel EXCEPT !.value = TRUE, !.version = @ + 1]

\* shutdown_rx.changed() of a task's receiver completes
ShutdownSeen == ChangedReady(run_flag, Receiver_clone(InitialVersion))

RunInit ==
    /\ \E program \in Programs, tls \in BOOLEAN, host \in ClientHosts,
          interfaces \in ClientInterfaceLists \cup ServerInterfaceLists :
            /\ program \in ClientPrograms => (tls = FALSE /\ interfaces \in ClientInterfaceLists)
            /\ program = "start_server" => (host = Url("127.0.0.1:8080", <<>>) /\ interfaces \in ServerInterfaceLists)
            /\ config = [program |-> program, tls |-> tls, host |-> host,
                         order |-> SetupOrder(program, interfaces)]
    /\ start_pc = "Configured"
    /\ setup_left = <<>>
    /\ run_flag = [value |-> FALSE, version |-> InitialVersion, closed |-> FALSE]
    /\ run_pc = [t \in RunTasks |-> "unspawned"]
    /\ produced = 0
    /\ ingress = <<>>
    /\ ingress_closed = FALSE
    /\ bus_log = <<>>
    /\ rx_pos = [t \in Subscribers |-> 0]
    /\ sent = [t \in Subscribers |-> <<>>]
    /\ signed = <<>>
    /\ at_signal = {}
    /\ fifo \in BOOLEAN
    /\ (config.program \in ClientPrograms => fifo = FALSE)
    /\ graceful = FALSE
    /\ responses = <<>>
    /\ replies = <<>>
    /\ http_enqueued = <<>>
    /\ file_open = FALSE
    /\ SignIdle /\ CodecIdle /\ ServerIdle /\ ShutdownIdle /\ LoadIdle /\ MatrixIdle /\ DetailIdle

otherVars == <<signVars, codecVars, serverVars, shutdownVars, loadVars, matrixVars, detailVars>>

\* the host calls the start function
StartCall ==
    /\ start_pc = "Configured"
    /\ start_pc' = "Starting"
    /\ setup_left' = config.order
    /\ UNCHANGED <<config, run_flag, run_pc, produced, ingress, ingress_closed, bus_log, rx_pos,
                   sent, signed, at_signal, fifo, graceful, responses, replies, http_enqueued, file_open, otherVars>>

\* setup_client_interfaces / setup_server_interfaces / setup_endpoints spawn
\* the next task; after the main task is spawned listen_for_shutdown waits
SetupSpawn ==
    /\ start_pc = "Starting"
    /\ setup_left # <<>>
    /\ run_pc' = [run_pc EXCEPT ![Head(setup_left)] = FirstPc(Head(setup_left))]
    /\ setup_left' = Tail(setup_left)
    /\ start_pc' = IF Tail(setup_left) = <<>> THEN "Running" ELSE "Starting"
    /\ UNCHANGED <<config, run_flag, produced, ingress, ingress_closed, bus_log, rx_pos,
                   sent, signed, at_signal, fifo, graceful, responses, replies, http_enqueued, file_open, otherVars>>

\* an interface's send or receive returns Err: the start function returns it
SetupFail ==
    /\ start_pc = "Starting"
    /\ setup_left # <<>>
    /\ Head(setup_left) \in ClientInterfaceTasks \cup ServerInterfaceTasks
    /\ start_pc' = "Failed"
    /\ UNCHANGED <<config, setup_left, run_flag, run_pc, produced, ingress, ingress_closed, bus_log,
                   rx_pos, sent, signed, at_signal, fifo, graceful, responses, replies, http_enqueued, file_open, otherVars>>

\* listen_for_shutdown: a select branch completes, shutdown_tx.send(true)
RunTrigger ==
    /\ start_pc = "Running"
    /\ start_pc' = "ShuttingDown"
    /\ run_flag' = shutdown_send(run_flag)
    /\ at_signal' = {ingress[i] : i \in 1..Len(ingress)}
    /\ UNCHANGED <<config, setup_left, run_pc, produced, ingress, ingress_closed, bus_log,
                   rx_pos, sent, signed, fifo, graceful, responses, replies, http_enqueued, file_open, otherVars>>

\* a variant of the return that joins the spawned tasks first
RunReturn_joins_tasks ==
    /\ start_pc = "ShuttingDown"
    /\ \A t \in RunTasks : run_pc[t] \in Ended \cup {"unspawned"}
    /\ start_pc' = "Drained"
    /\ run_flag' = [run_flag EXCEPT !.closed = TRUE]
    /\ UNCHANGED <<config, setup_left, run_pc, produced, ingress, ingress_closed, bus_log,
                   rx_pos, sent, signed, at_signal, fifo, graceful, responses, replies, http_enqueued, file_open, otherVars>>

\* listen_for_shutdown: the sleep is over, the start function returns Ok(())
RunReturn ==
    /\ start_pc = "ShuttingDown"
    /\ start_pc' = "Drained"
    /\ run_flag' = [run_flag EXCEPT !.closed = TRUE]
    /\ UNCHANGED <<config, setup_left, run_pc, produced, ingress, ingress_closed, bus_log,
                   rx_pos, sent, signed, at_signal, fifo, graceful, responses, replies, http_enqueued, file_open, otherVars>>

\* the host hands a message to the client: a send on the ingress queue or a
\* push on the shared list
HostPush ==
    /\ config.program \in ClientPrograms
    /\ ~ingress_closed
    /\ produced < MaxMessages
    /\ produced' = produced + 1
    /\ ingress' = Append(ingress, produced + 1)
    /\ UNCHANGED <<config, start_pc, setup_left, run_flag, run_pc, ingress_closed, bus_log,
                   rx_pos, sent, signed, at_signal, fifo, graceful, responses, replies, http_enqueued, file_open, otherVars>>

\* the host drops the sender of the ingress queue
HostClose ==
    /\ config.program = "start_client"
    /\ ~ingress_closed
    /\ ingress_closed' = TRUE
    /\ UNCHANGED <<config, start_pc, setup_left, run_flag, run_pc, produced, ingress, bus_log,
                   rx_pos, sent, signed, at_signal, fifo, graceful, responses, replies, http_enqueued, file_open, otherVars>>

\* receive_notifications: the recv branch of the select takes a message,
\* signs it and sends it on the bus; a send error breaks the loop
SignerRecv ==
    /\ run_pc["receive_notifications"] = "loop"
    /\ ingress # <<>>
    /\ ingress' = Tail(ingress)
    /\ signed' = Append(signed, Head(ingress))
    /\ bus_log' = broadcast_send(bus_log, <<Head(ingress)>>)
    /\ run_pc' = [run_pc EXCEPT !["receive_notifications"] = IF BusReceivers = 0 THEN "failed" ELSE "loop"]
    /\ UNCHANGED <<config, start_pc, setup_left, run_flag, produced, ingress_closed,
                   rx_pos, sent, at_signal, fifo, graceful, responses, replies, http_enqueued, file_open, otherVars>>

\* receive_notifications_arc: the sleep branch of the select, then the list
\* is drained and every message signed and sent; a send error is logged
ArcPoll ==
    /\ run_pc["receive_notifications_arc"] = "loop"
    /\ ingress # <<>>
    /\ ingress' = <<>>
    /\ signed' = signed \o ingress
    /\ bus_log' = broadcast_send(bus_log, ingress)
    /\ UNCHANGED <<config, start_pc, setup_left, run_flag, run_pc, produced, ingress_closed,
                   rx_pos, sent, at_signal, fifo, graceful, responses, replies, http_enqueued, file_open, otherVars>>

\* a write_file whose select has no shutdown branch
SeeShutdown_not_in_write_file(t) ==
    /\ t \in Signers \cup {"write_pipe"}
    /\ run_pc[t] = "loop"
    /\ ShutdownSeen
    /\ run_pc' = [run_pc EXCEPT ![t] = "exited"]
    /\ UNCHANGED <<config, start_pc, setup_left, run_flag, produced, ingress, ingress_closed, bus_log,
                   rx_pos, sent, signed, at_signal, fifo, graceful, responses, replies, http_enqueued, file_open, otherVars>>

\* the shutdown_rx.changed() branch of a select whose body is a break:
\* both signing tasks, write_pipe and write_file, which then shuts its file down
SeeShutdown(t) ==
    /\ t \in Signers \cup {"write_pipe", "write_file"}
    /\ run_pc[t] = "loop"
    /\ ShutdownSeen
    /\ run_pc' = [run_pc EXCEPT ![t] = "exited"]
    /\ file_open' = IF t = "write_file" THEN FALSE ELSE file_open
    /\ UNCHANGED <<config, start_pc, setup_left, run_flag, produced, ingress, ingress_closed, bus_log,
                   rx_pos, sent, signed, at_signal, fifo, graceful, responses, replies, http_enqueued, otherVars>>

\* start_sending runs for the first time: interface_rx.resubscribe()
HttpStart ==
    /\ run_pc["start_sending"] = "spawned"
    /\ run_pc' = [run_pc EXCEPT !["start_sending"] = "loop"]
    /\ rx_pos' = [rx_pos EXCEPT !["start_sending"] = Len(bus_log)]
    /\ UNCHANGED <<config, start_pc, setup_left, run_flag, produced, ingress, ingress_closed, bus_log,
                   sent, signed, at_signal, fifo, graceful, responses, replies, http_enqueued, file_open, otherVars>>

\* a variant of the loop that reads the flag only when the bus is closed
HttpLoop_no_flag_check ==
    /\ run_pc["start_sending"] = "loop"
    /\ \/ /\ rx_pos["start_sending"] < Len(bus_log)
          /\ rx_pos' = [rx_pos EXCEPT !["start_sending"] = @ + 1]
          /\ run_pc' = [run_pc EXCEPT !["start_sending"] = "posting"]
       \/ /\ rx_pos["start_sending"] = Len(bus_log) /\ BusClosed
          /\ run_pc' = [run_pc EXCEPT !["start_sending"] = "closed"]
          /\ UNCHANGED rx_pos
    /\ UNCHANGED <<config, start_pc, setup_left, run_flag, produced, ingress, ingress_closed, bus_log,
                   sent, signed, at_signal, fifo, graceful, responses, replies, http_enqueued, file_open, otherVars>>

\* one iteration of start_sending's loop: break if *shutdown.borrow(), else
\* try_recv: a message starts a POST, Closed breaks, Empty loops
HttpLoop ==
    /\ run_pc["start_sending"] = "loop"
    /\ \/ /\ Receiver_borrow(run_flag) = "true"
          /\ run_pc' = [run_pc EXCEPT !["start_sending"] = "exited"]
          /\ UNCHANGED rx_pos
       \/ /\ Receiver_borrow(run_flag) = "false"
          /\ rx_pos["start_sending"] < Len(bus_log)
          /\ rx_pos' = [rx_pos EXCEPT !["start_sending"] = @ + 1]
          /\ run_pc' = [run_pc EXCEPT !["start_sending"] = "posting"]
       \/ /\ Receiver_borrow(run_flag) = "false"
          /\ rx_pos["start_sending"] = Len(bus_log) /\ BusClosed
          /\ run_pc' = [run_pc EXCEPT !["start_sending"] = "closed"]
          /\ UNCHANGED rx_pos
    /\ UNCHANGED <<config, start_pc, setup_left, run_flag, produced, ingress, ingress_closed, bus_log,
                   sent, signed, at_signal, fifo, graceful, responses, replies, http_enqueued, file_open, otherVars>>

\* the POST of the message just taken completes with the server's answer
HttpPostDone ==
    /\ run_pc["start_sending"] = "posting"
    /\ run_pc' = [run_pc EXCEPT !["start_sending"] = "loop"]
    /\ sent' = [sent EXCEPT !["start_sending"] = Append(@, bus_log[rx_pos["start_sending"]])]
    /\ responses' = Append(responses, [path |-> send_url(config.host).path,
                                       handler |-> route_post(send_url(config.host).path)])
    /\ UNCHANGED <<config, start_pc, setup_left, run_flag, produced, ingress, ingress_closed, bus_log,
                   rx_pos, signed, at_signal, fifo, graceful, replies, http_enqueued, file_open, otherVars>>

\* write_pipe: the recv branch of the select writes the message to the pipe
PipeWrite ==
    /\ run_pc["write_pipe"] = "loop"
    /\ rx_pos["write_pipe"] < Len(bus_log)
    /\ rx_pos' = [rx_pos EXCEPT !["write_pipe"] = @ + 1]
    /\ sent' = [sent EXCEPT !["write_pipe"] = Append(@, bus_log[rx_pos["write_pipe"] + 1])]
    /\ UNCHANGED <<config, start_pc, setup_left, run_flag, run_pc, produced, ingress, ingress_closed,
                   bus_log, signed, at_signal, fifo, graceful, responses, replies, http_enqueued, file_open, otherVars>>

\* write_pipe: open_sender or the write fails (no reader at the other end),
\* or the bus is closed: the task returns
PipeEnd ==
    /\ run_pc["write_pipe"] = "loop"
    /\ \/ run_pc' = [run_pc EXCEPT !["write_pipe"] = "failed"]
       \/ /\ rx_pos["write_pipe"] = Len(bus_log) /\ BusClosed
          /\ run_pc' = [run_pc EXCEPT !["write_pipe"] = "closed"]
    /\ UNCHANGED <<config, start_pc, setup_left, run_flag, produced, ingress, ingress_closed, bus_log,
                   rx_pos, sent, signed, at_signal, fifo, graceful, responses, replies, http_enqueued, file_open, otherVars>>

\* the pipe interface's task runs for the first time: the FIFO is created
\* if the path does not exist (mkfifo may fail), then read_pipe starts
PipeStart ==
    /\ run_pc["read_pipe"] = "spawned"
    /\ \/ /\ fifo' = TRUE
          /\ run_pc' = [run_pc EXCEPT !["read_pipe"] = "loop"]
       \/ /\ ~fifo
          /\ fifo' = FALSE
          /\ run_pc' = [run_pc EXCEPT !["read_pipe"] = "failed"]
    /\ UNCHANGED <<config, start_pc, setup_left, run_flag, produced, ingress, ingress_closed, bus_log,
                   rx_pos, sent, signed, at_signal, graceful, responses, replies, http_enqueued, file_open, otherVars>>

\* read_pipe: the pipe is readable and read to its end; the string read is
\* sent on the ingress queue
ReadPipe ==
    /\ run_pc["read_pipe"] = "loop"
    /\ produced < MaxMessages
    /\ produced' = produced + 1
    /\ ingress' = Append(ingress, produced + 1)
    /\ UNCHANGED <<config, start_pc, setup_left, run_flag, run_pc, ingress_closed, bus_log,
                   rx_pos, sent, signed, at_signal, fifo, graceful, responses, replies, http_enqueued, file_open, otherVars>>

\* read_pipe: opening or reading the pipe fails; return Err(e.into())
ReadPipeFail ==
    /\ run_pc["read_pipe"] = "loop"
    /\ run_pc' = [run_pc EXCEPT !["read_pipe"] = "failed"]
    /\ UNCHANGED <<config, start_pc, setup_left, run_flag, produced, ingress, ingress_closed, bus_log,
                   rx_pos, sent, signed, at_signal, fifo, graceful, responses, replies, http_enqueued, file_open, otherVars>>

\* read_pipe: the shutdown_rx.changed() branch breaks the loop, then
\* cleanup_pipe removes the file
ReadPipeShutdown ==
    /\ run_pc["read_pipe"] = "loop"
    /\ ShutdownSeen
    /\ fifo' = FALSE
    /\ run_pc' = [run_pc EXCEPT !["read_pipe"] = "exited"]
    /\ UNCHANGED <<config, start_pc, setup_left, run_flag, produced, ingress, ingress_closed, bus_log,
                   rx_pos, sent, signed, at_signal, graceful, responses, replies, http_enqueued, file_open, otherVars>>

\* start_monitoring: only the server of the branch without TLS is given the handle
handle_attached(tls) == ~tls

\* start_monitoring runs for the first time: shutdown_server is spawned,
\* the socket is bound (which may fail) and the server serves
MonitorStart ==
    /\ run_pc["start_monitoring"] = "spawned"
    /\ \E bound \in BOOLEAN :
            run_pc' = [run_pc EXCEPT !["start_monitoring"] = IF bound THEN "serving" ELSE "failed"]
    /\ UNCHANGED <<config, start_pc, setup_left, run_flag, produced, ingress, ingress_closed, bus_log,
                   rx_pos, sent, signed, at_signal, fifo, graceful, responses, replies, http_enqueued, file_open, otherVars>>

StatusCode_OK == 200
StatusCode_BAD_REQUEST == 400

\* the receiver of the ingress queue is gone: start_server returned an error
\* before it moved interface_rx into the validator task, which never returns
\* while a listener holds a sender
IngressReceiverDropped == config.program = "start_server" /\ start_pc = "Failed"

\* a handler that answers without looking at the result of the send
notification_handler_ignores_send(receiver_dropped) ==
    [status |-> StatusCode_OK, enqueued |-> ~receiver_dropped]

\* notification_handler: tx.send(frame).await, Ok answers 200 and Err 400;
\* the send fails only when the receiver was dropped
notification_handler(receiver_dropped) ==
    IF receiver_dropped
    THEN [status |-> StatusCode_BAD_REQUEST, enqueued |-> FALSE]
    ELSE [status |-> StatusCode_OK, enqueued |-> TRUE]

\* a POST on the notification route reaches notification_handler, which
\* sends the frame on the ingress queue and answers
HttpRequest ==
    /\ run_pc["start_monitoring"] = "serving"
    /\ produced < MaxMessages
    /\ produced' = produced + 1
    /\ LET frame == produced + 1
           handled == notification_handler(IngressReceiverDropped)
       IN  /\ ingress' = IF handled.enqueued THEN Append(ingress, frame) ELSE ingress
           /\ http_enqueued' = IF handled.enqueued THEN Append(http_enqueued, frame) ELSE http_enqueued
           /\ replies' = Append(replies, [frame |-> frame, status |-> handled.status,
                                          closed |-> IngressReceiverDropped])
    /\ UNCHANGED <<config, start_pc, setup_left, run_flag, run_pc, ingress_closed, bus_log,
                   rx_pos, sent, signed, at_signal, fifo, graceful, responses, file_open, otherVars>>

\* shutdown_server: shutdown.changed() completes, handle.graceful_shutdown;
\* a serving server that was given the handle stops accepting
ShutdownServer ==
    /\ run_pc["start_monitoring"] \notin {"unspawned", "spawned"}
    /\ ~graceful
    /\ ShutdownSeen
    /\ graceful' = TRUE
    /\ run_pc' = [run_pc EXCEPT !["start_monitoring"] =
                    IF @ = "serving" /\ handle_attached(config.tls) THEN "graceful" ELSE @]
    /\ UNCHANGED <<config, start_pc, setup_left, run_flag, produced, ingress, ingress_closed, bus_log,
                   rx_pos, sent, signed, at_signal, fifo, responses, replies, http_enqueued, file_open, otherVars>>

\* the connections of a server in graceful shutdown end, or GRACE_PERIOD is over
ListenerStop ==
    /\ run_pc["start_monitoring"] = "graceful"
    /\ run_pc' = [run_pc EXCEPT !["start_monitoring"] = "stopped"]
    /\ UNCHANGED <<config, start_pc, setup_left, run_flag, produced, ingress, ingress_closed, bus_log,
                   rx_pos, sent, signed, at_signal, fifo, graceful, responses, replies, http_enqueued, file_open, otherVars>>

\* write_file runs for the first time: endpoint_rx.resubscribe(), then the
\* file is opened (which may fail)
FileStart ==
    /\ run_pc["write_file"] = "spawned"
    /\ rx_pos' = [rx_pos EXCEPT !["write_file"] = Len(bus_log)]
    /\ \E opened \in BOOLEAN :
            /\ run_pc' = [run_pc EXCEPT !["write_file"] = IF opened THEN "loop" ELSE "failed"]
            /\ file_open' = opened
    /\ UNCHANGED <<config, start_pc, setup_left, run_flag, produced, ingress, ingress_closed, bus_log,
                   sent, signed, at_signal, fifo, graceful, responses, replies, http_enqueued, otherVars>>

\* write_file: the recv branch of the select writes the message's text as a line
FileWrite ==
    /\ run_pc["write_file"] = "loop"
    /\ rx_pos["write_file"] < Len(bus_log)
    /\ rx_pos' = [rx_pos EXCEPT !["write_file"] = @ + 1]
    /\ sent' = [sent EXCEPT !["write_file"] = Append(@, bus_log[rx_pos["write_file"] + 1])]
    /\ UNCHANGED <<config, start_pc, setup_left, run_flag, run_pc, produced, ingress, ingress_closed,
                   bus_log, signed, at_signal, fifo, graceful, responses, replies, http_enqueued, file_open, otherVars>>

\* process_incoming_notifications takes a frame; a notification that
\* matches a key-set of the endpoint is sent on its bus, a send error is logged
ValidatorRecv ==
    /\ run_pc["process_incoming_notifications"] = "loop"
    /\ ingress # <<>>
    /\ ingress' = Tail(ingress)
    /\ \E matches \in BOOLEAN :
            bus_log' = IF matches THEN broadcast_send(bus_log, <<Head(ingress)>>) ELSE bus_log
    /\ UNCHANGED <<config, start_pc, setup_left, run_flag, run_pc, produced, ingress_closed,
                   rx_pos, sent, signed, at_signal, fifo, graceful, responses, replies, http_enqueued, file_open, otherVars>>

\* the senders of the ingress queue are gone: the one start_server keeps
\* until it returns, and the clone each interface task holds until it ends
IngressSendersDropped ==
    /\ start_pc = "Drained"
    /\ \A t \in ServerInterfaceTasks : run_pc[t] \in Ended \cup {"unspawned"}

\* process_incoming_notifications: msg_rx.recv() returns None once the queue
\* is empty and every sender is dropped; the while let loop ends
ValidatorEnd ==
    /\ run_pc["process_incoming_notifications"] = "loop"
    /\ ingress = <<>>
    /\ IngressSendersDropped
    /\ run_pc' = [run_pc EXCEPT !["process_incoming_notifications"] = "closed"]
    /\ UNCHANGED <<config, start_pc, setup_left, run_flag, produced, ingress, ingress_closed, bus_log,
                   rx_pos, sent, signed, at_signal, fifo, graceful, responses, replies, http_enqueued, file_open, otherVars>>

RunNext ==
    \/ StartCall
    \/ SetupSpawn
    \/ SetupFail
    \/ RunTrigger
    \/ RunReturn
    \/ HostPush
    \/ HostClose
    \/ SignerRecv
    \/ ArcPoll
    \/ \E t \in RunTasks : SeeShutdown(t)
    \/ HttpStart
    \/ HttpLoop
    \/ HttpPostDone
    \/ PipeWrite
    \/ PipeEnd
    \/ PipeStart
    \/ ReadPipe
    \/ ReadPipeFail
    \/ ReadPipeShutdown
    \/ MonitorStart
    \/ HttpRequest
    \/ ShutdownServer
    \/ ListenerStop
    \/ FileStart
    \/ FileWrite
    \/ ValidatorRecv
    \/ ValidatorEnd

\* the runtime runs a task that can run, and time passes: the grace sleep
\* ends, start_sending is polled, and a POST ends with an answer or an error
RunFairness ==
    /\ WF_vars(RunReturn)
    /\ WF_vars(HttpStart)
    /\ WF_vars(HttpLoop)
    /\ WF_vars(HttpPostDone)

SpecRun == RunInit /\ [][RunNext]_vars /\ RunFairness

\* the runtime also runs every spawned task whose first run is due or whose
\* select has a shutdown branch that can complete
TaskFairness ==
    /\ \A t \in Signers \cup {"write_pipe", "write_file"} : WF_vars(SeeShutdown(t))
    /\ WF_vars(PipeStart)
    /\ WF_vars(ReadPipeShutdown)
    /\ WF_vars(FileStart)

SpecRunTasks == RunInit /\ [][RunNext]_vars /\ TaskFairness

\* and it runs the listener and the validator: the first run of
\* start_monitoring, shutdown_server once the flag has changed, the
\* connections of a listener in graceful shutdown ending within
\* GRACE_PERIOD, a recv with a frame waiting or with every sender dropped
ServerFairness ==
    /\ WF_vars(MonitorStart)
    /\ WF_vars(ShutdownServer)
    /\ WF_vars(ListenerStop)
    /\ WF_vars(ValidatorRecv)
    /\ WF_vars(ValidatorEnd)

SpecRunServer == RunInit /\ [][RunNext]_vars /\ RunFairness /\ TaskFairness /\ ServerFairness

\* C11: once shutdown has been triggered, the start function (start_client,
\* start_client_arc, start_server) returns Ok after the grace sleep, and the
\* return is possible whatever the spawned tasks are doing: it waits for none.
C11_ReturnsAfterGrace ==
    /\ [](start_pc = "ShuttingDown" => ENABLED RunReturn)
    /\ (start_pc = "ShuttingDown") ~> (start_pc = "Drained")

C11_Witness ==
    /\ start_pc = "Drained"
    /\ \E t \in RunTasks : run_pc[t] = "loop"
    /\ \E t \in RunTasks : run_pc[t] = "posting"
    /\ \E t \in RunTasks : run_pc[t] \in Ended

\* C12: the lifecycle moves forward through Configured, Starting, Running,
\* ShuttingDown, Drained: a start function has returned Ok only after
\* shutdown was triggered and the flag set true, and has returned Err only
\* from Starting, before the signing or validator task is spawned.
C12_LifecycleForward ==
    /\ start_pc = "Drained" => run_flag.value
    /\ start_pc = "Failed" => run_pc[MainTask(config.program)] = "unspawned"

C14_ListenerShutsDownGracefully ==
    graceful => run_pc["start_monitoring"] # "serving"

\* C15: the pipe interface's task creates the FIFO when it starts, and once
\* the server has shut down and the task has ended the FIFO no longer
\* exists, also when the task ended on a failed read.
C15_FifoRemovedOnShutdown ==
    /\ run_pc["read_pipe"] = "loop" => fifo
    /\ (start_pc = "Drained" /\ run_pc["read_pipe"] \in Ended) => ~fifo

\* C16: an absent bus subscriber never stops the signing task: it ends only
\* once shutdown has been signalled.
C16_SignerSurvivesAbsentSubscriber ==
    \A t \in Signers : run_pc[t] \in Ended => start_pc \in {"ShuttingDown", "Drained"}

\* C17: receive_notifications_arc drains the shared list on shutdown: every
\* message in the list when shutdown was signalled has been signed and
\* published by the time the task has exited.
C17_ArcDrainsOnShutdown ==
    run_pc["receive_notifications_arc"] \in Ended
        => at_signal \subseteq {signed[i] : i \in 1..Len(signed)}

\* C18: every Notification published on the client bus is transmitted by each
\* client interface's send task: before shutdown is signalled, a send task
\* that has nothing left to receive has transmitted the whole bus, whenever
\* it first ran.
C18_EveryPublishedIsTransmitted ==
    \A t \in ClientInterfaceTasks :
        (start_pc = "Running" /\ run_pc[t] = "loop" /\ rx_pos[t] = Len(bus_log))
            => sent[t] = bus_log

\* C19: every ValidatedNotification published on the endpoint's bus is
\* egressed by its notify task: before shutdown is signalled, a notify task
\* that has nothing left to receive has egressed the whole bus, whenever it
\* first ran.
C19_EveryValidatedIsEgressed ==
    \A t \in EndpointTasks :
        (start_pc = "Running" /\ run_pc[t] = "loop" /\ rx_pos[t] = Len(bus_log))
            => sent[t] = bus_log

\* C20: the path the HTTP client POSTs to is the path of the server's
\* notification route, /pass-it-on/notification, so every POST reaches
\* notification_handler.
C20_ClientPathIsServerRoute ==
    \A i \in 1..Len(responses) :
        /\ responses[i].path = <<BASE_PATH, NOTIFICATION_PATH>>
        /\ responses[i].handler = "notification_handler"

\* the number of times frame was put on the ingress queue by the handler
TimesEnqueued(frame) == Cardinality({i \in 1..Len(http_enqueued) : http_enqueued[i] = frame})

\* C21: notification_handler replies 200 OK exactly when the frame was
\* enqueued on the ingress queue (and then exactly once), and 400 Bad Request
\* exactly when the enqueue failed because the queue is closed (and then the
\* frame was not enqueued); it gives no other reply.
C21_ReplyTellsEnqueue ==
    \A i \in 1..Len(replies) :
        LET r == replies[i] IN
            /\ r.status \in {StatusCode_OK, StatusCode_BAD_REQUEST}
            /\ r.status = StatusCode_OK <=> TimesEnqueued(r.frame) = 1
            /\ r.status = StatusCode_BAD_REQUEST <=> (r.closed /\ TimesEnqueued(r.frame) = 0)

\* a 200 reply for an enqueued frame and a 400 reply for a frame sent on the closed queue
C21_Witness ==
    /\ Len(replies) = 2
    /\ replies[1].status = StatusCode_OK /\ TimesEnqueued(replies[1].frame) = 1
    /\ replies[2].status = StatusCode_BAD_REQUEST /\ TimesEnqueued(replies[2].frame) = 0

(***************************************************************************)
(* Loading a configuration file (configuration.rs, configuration/*.rs,     *)
(* the TryFrom conversions of the interfaces and endpoints) and starting   *)
(* the interfaces of the server configuration it returns.                  *)
(***************************************************************************)
KEY_LENGTH == 32
U16_MAX == 65535
U16_MIN == 0
U8_VALUES == 256

\* Result<T, Error>: Ok(value), or Err(error(arg))
LoadOk(value) == [ok |-> TRUE, value |-> value]
LoadErr(error, arg) == [ok |-> FALSE, error |-> error, arg |-> arg]
Unit == "()"
Pending == LoadErr("pending", Unit)

\* a key check that accepts every key of at least 32 bytes
valid_key_length_at_least(key) ==
    IF Len(key) >= KEY_LENGTH THEN LoadOk(Unit) ELSE LoadErr("InvalidKeyLength", Len(key) % U8_VALUES)

\* valid_key_length: key.len() == 32, else InvalidKeyLength(key.len() as u8)
valid_key_length(key) ==
    IF Len(key) = KEY_LENGTH THEN LoadOk(Unit) ELSE LoadErr("InvalidKeyLength", Len(key) % U8_VALUES)

\* the port test of both conversions: port < u16::MAX && port > u16::MIN
port_accepted(port) == port < U16_MAX /\ port > U16_MIN

\* TryFrom<&HttpSocketConfigFile> for HttpSocketInterface; HttpSocketInterface::new
\* takes tls from the scheme the conversion has just set
HttpSocketInterface_try_from(value) ==
    IF ~port_accepted(value.port) THEN LoadErr("InvalidPortNumber", value.port)
    ELSE LoadOk([type |-> "http", tls |-> value.tls, port |-> value.port,
                 tls_cert_path |-> value.tls_cert_path, tls_key_path |-> value.tls_key_path])

\* TryFrom<&PipeConfigFile> for PipeInterface
PipeInterface_try_from(value) ==
    IF value.path = "" THEN LoadErr("InvalidInterfaceConfiguration", "Pipe path is empty")
    ELSE LoadOk([type |-> "pipe", path |-> value.path])

\* InterfaceConfig::to_interface of the two interface tables
to_interface(cfg) ==
    IF cfg.type = "http" THEN HttpSocketInterface_try_from(cfg) ELSE PipeInterface_try_from(cfg)

\* a conversion that looks at the notifications before the path
FileEndpoint_try_from_notifications_first(value) ==
    IF value.notifications = <<>>
    THEN LoadErr("InvalidEndpointConfiguration", "File configuration has no notifications setup")
    ELSE IF value.path = ""
    THEN LoadErr("InvalidEndpointConfiguration", "File configuration path is blank")
    ELSE LoadOk([type |-> "file", path |-> value.path, notifications |-> value.notifications])

\* TryFrom<&FileConfigFile> for FileEndpoint
FileEndpoint_try_from(value) ==
    IF value.path = ""
    THEN LoadErr("InvalidEndpointConfiguration", "File configuration path is blank")
    ELSE IF value.notifications = <<>>
    THEN LoadErr("InvalidEndpointConfiguration", "File configuration has no notifications setup")
    ELSE LoadOk([type |-> "file", path |-> value.path, notifications |-> value.notifications])

\* TryFrom<&EmailConfigFile> for EmailEndpoint
EmailEndpoint_try_from(value) ==
    IF ~port_accepted(value.port) THEN LoadErr("InvalidPortNumber", value.port)
    ELSE IF value.to = <<>>
    THEN LoadErr("InvalidEndpointConfiguration", "Email configuration has no 'to' email address setup")
    ELSE IF value.notifications = <<>>
    THEN LoadErr("InvalidEndpointConfiguration", "Email configuration has no notifications setup")
    ELSE LoadOk([type |-> "email", port |-> value.port, to |-> value.to,
                 notifications |-> value.notifications])

\* EndpointConfig::to_endpoint of the two endpoint tables
to_endpoint(cfg) ==
    IF cfg.type = "file" THEN FileEndpoint_try_from(cfg) ELSE EmailEndpoint_try_from(cfg)

\* cfg.validate() of an interface table: the checks of its conversion
InterfaceConfig_validate(cfg) == IF to_interface(cfg).ok THEN LoadOk(Unit) ELSE to_interface(cfg)
\* cfg.validate() of an endpoint table: the checks of its conversion
EndpointConfig_validate(cfg) == IF to_endpoint(cfg).ok THEN LoadOk(Unit) ELSE to_endpoint(cfg)

\* a validation that looks at the endpoints before the interfaces
ServerConfiguration_validate_endpoints_first(built) ==
    IF built.endpoints = <<>> THEN LoadErr("MissingEndpoint", Unit)
    ELSE IF built.interfaces = <<>> THEN LoadErr("MissingInterface", Unit)
    ELSE LoadOk(built)

\* ServerConfiguration::validate
ServerConfiguration_validate(built) ==
    IF built.interfaces = <<>> THEN LoadErr("MissingInterface", Unit)
    ELSE IF built.endpoints = <<>> THEN LoadErr("MissingEndpoint", Unit)
    ELSE LoadOk(built)

\* ServerConfiguration::new
ServerConfiguration_new(key, interfaces, endpoints) ==
    ServerConfiguration_validate([key |-> key, interfaces |-> interfaces, endpoints |-> endpoints])

\* ClientConfiguration::validate
ClientConfiguration_validate(built) ==
    IF built.interfaces = <<>> THEN LoadErr("MissingInterface", Unit) ELSE LoadOk(built)

\* ClientConfiguration::new
ClientConfiguration_new(key, interfaces) ==
    ClientConfiguration_validate([key |-> key, interfaces |-> interfaces])

\* HttpSocketInterface::receive: the test made before a listener is spawned
receive_rejects(interface) ==
    interface.tls /\ (interface.tls_cert_path = None \/ interface.tls_cert_path = None)

\* start_monitoring, match tls: tls_cert_path.unwrap() and tls_key_path.unwrap()
\* panic on None, otherwise the listener serves
start_monitoring_first_run(interface) ==
    IF interface.tls /\ (interface.tls_cert_path = None \/ interface.tls_key_path = None)
    THEN "panicked" ELSE "serving"

\* the inputs: keys by length, ports, interface and endpoint tables
KeyOfLength(n) == [i \in 1..n |-> "k"]
\* 272 = 256 + 16: longer than an 8-bit length can tell
KeyLengths == {16, 31, 32, 33, 272}
Ports == {0, 1, 8080, 65534, 65535, 65536}
CertPath == "/cert.pem"
KeyPath == "/key.pem"
HttpTable(port, tls, cert, key) ==
    [type |-> "http", port |-> port, tls |-> tls, tls_cert_path |-> cert, tls_key_path |-> key]
PipeTable(path) == [type |-> "pipe", path |-> path]
FileTable(path, notifications) == [type |-> "file", path |-> path, notifications |-> notifications]
EmailTable(port, to, notifications) ==
    [type |-> "email", port |-> port, to |-> to, notifications |-> notifications]
InterfaceTables ==
    {HttpTable(port, FALSE, None, None) : port \in Ports}
        \cup {HttpTable(8080, TRUE, cert, key) : cert \in {None, CertPath}, key \in {None, KeyPath}}
        \cup {PipeTable(path) : path \in {"", "/pipe"}}
EndpointTables ==
    {FileTable(path, notifications) : path \in {"", "/file"}, notifications \in {<<>>, <<"n1">>}}
        \cup {EmailTable(port, <<"a@b">>, <<"n1">>) : port \in Ports}
        \cup {EmailTable(587, to, notifications) : to \in {<<>>, <<"a@b">>}, notifications \in {<<>>, <<"n1">>}}
\* lists of tables: none, one, or a valid table followed by one
InterfaceLists ==
    {<<>>} \cup {<<t>> : t \in InterfaceTables}
        \cup {<<PipeTable("/pipe"), t>> : t \in InterfaceTables}
EndpointLists ==
    {<<>>} \cup {<<t>> : t \in EndpointTables}
        \cup {<<FileTable("/file", <<"n1">>), t>> : t \in EndpointTables}
ConfigFiles ==
    {[kind |-> "server", key |-> KeyOfLength(n), interface |-> interface, endpoint |-> endpoint] :
        n \in KeyLengths, interface \in InterfaceLists, endpoint \in EndpointLists}
        \cup {[kind |-> "client", key |-> KeyOfLength(n), interface |-> interface, endpoint |-> <<>>] :
                n \in KeyLengths, interface \in InterfaceLists}

LoadInit ==
    /\ ld_file \in ConfigFiles
    /\ ld_pc = "valid_key_length"
    /\ ld_next = 1
    /\ ld_steps = <<>>
    /\ ld_built = [interfaces |-> <<>>, endpoints |-> <<>>]
    /\ ld_result = Pending
    /\ ld_receive = <<>>
    /\ SignIdle /\ CodecIdle /\ ServerIdle /\ ShutdownIdle /\ RunIdle /\ MatrixIdle /\ DetailIdle

loadOthers == <<signVars, codecVars, serverVars, shutdownVars, runVars, matrixVars, detailVars>>

\* the steps of ServerConfigFile::validate and ClientConfigFile::validate, in order
LoadPhases == <<"validate_interface", "validate_endpoint", "to_interface", "to_endpoint", "new">>
PhaseTables(phase) ==
    IF phase \in {"validate_interface", "to_interface"} THEN ld_file.interface
    ELSE IF phase \in {"validate_endpoint", "to_endpoint"} THEN ld_file.endpoint
    ELSE <<>>
\* the first step from the k-th on that has a table to look at, or new
RECURSIVE PhaseFrom(_)
PhaseFrom(k) ==
    IF k >= Len(LoadPhases) THEN "new"
    ELSE IF PhaseTables(LoadPhases[k]) # <<>> THEN LoadPhases[k]
    ELSE PhaseFrom(k + 1)
PhaseIndex(phase) == CHOOSE k \in 1..Len(LoadPhases) : LoadPhases[k] = phase

\* one step of a for loop or a map over tables: an error returns it, the
\* last table moves on to the next step of validate
LoopStep(phase, result) ==
    /\ ld_steps' = Append(ld_steps, [op |-> phase, index |-> ld_next, result |-> result])
    /\ IF ~result.ok
       THEN /\ ld_pc' = "failed"
            /\ ld_result' = result
            /\ ld_next' = ld_next
       ELSE /\ ld_result' = ld_result
            /\ IF ld_next < Len(PhaseTables(phase))
               THEN ld_pc' = phase /\ ld_next' = ld_next + 1
               ELSE ld_pc' = PhaseFrom(PhaseIndex(phase) + 1) /\ ld_next' = 1

\* valid_key_length(self.key.as_str())?
LoadKey ==
    /\ ld_pc = "valid_key_length"
    /\ ld_steps' = Append(ld_steps, [op |-> "valid_key_length", index |-> 0,
                                     result |-> valid_key_length(ld_file.key)])
    /\ IF valid_key_length(ld_file.key).ok
       THEN ld_pc' = PhaseFrom(1) /\ ld_result' = ld_result
       ELSE ld_pc' = "failed" /\ ld_result' = valid_key_length(ld_file.key)
    /\ UNCHANGED <<ld_file, ld_next, ld_built, ld_receive, loadOthers>>

\* for cfg in self.interface.iter() { cfg.validate()? }
LoadValidateInterface ==
    /\ ld_pc = "validate_interface"
    /\ LoopStep("validate_interface", InterfaceConfig_validate(ld_file.interface[ld_next]))
    /\ UNCHANGED <<ld_file, ld_built, ld_receive, loadOthers>>

\* for cfg in self.endpoint.iter() { cfg.validate()? }
LoadValidateEndpoint ==
    /\ ld_pc = "validate_endpoint"
    /\ LoopStep("validate_endpoint", EndpointConfig_validate(ld_file.endpoint[ld_next]))
    /\ UNCHANGED <<ld_file, ld_built, ld_receive, loadOthers>>

\* self.interface.iter().map(|cfg| cfg.to_interface()).collect()
LoadToInterface ==
    /\ ld_pc = "to_interface"
    /\ LET converted == to_interface(ld_file.interface[ld_next]) IN
        /\ LoopStep("to_interface", converted)
        /\ ld_built' = IF converted.ok
                       THEN [ld_built EXCEPT !.interfaces = Append(@, converted.value)]
                       ELSE ld_built
    /\ UNCHANGED <<ld_file, ld_receive, loadOthers>>

\* self.endpoint.iter().map(|cfg| cfg.to_endpoint()).collect()
LoadToEndpoint ==
    /\ ld_pc = "to_endpoint"
    /\ LET converted == to_endpoint(ld_file.endpoint[ld_next]) IN
        /\ LoopStep("to_endpoint", converted)
        /\ ld_built' = IF converted.ok
                       THEN [ld_built EXCEPT !.endpoints = Append(@, converted.value)]
                       ELSE ld_built
    /\ UNCHANGED <<ld_file, ld_receive, loadOthers>>

\* ServerConfiguration::new(self.key(), interfaces, endpoints), or
\* ClientConfiguration::new(self.key(), interfaces); the host of a server
\* configuration goes on to start_server
LoadNew ==
    /\ ld_pc = "new"
    /\ ld_result' = IF ld_file.kind = "server"
                    THEN ServerConfiguration_new(Key_from_bytes(ld_file.key), ld_built.interfaces, ld_built.endpoints)
                    ELSE ClientConfiguration_new(Key_from_bytes(ld_file.key), ld_built.interfaces)
    /\ ld_steps' = Append(ld_steps, [op |-> "new", index |-> 0, result |-> ld_result'])
    /\ ld_pc' = IF ~ld_result'.ok THEN "failed"
                ELSE IF ld_file.kind = "server" THEN "receive" ELSE "done"
    /\ ld_next' = 1
    /\ UNCHANGED <<ld_file, ld_built, ld_receive, loadOthers>>

\* setup_server_interfaces: interface.receive(..).await? of the next
\* interface; HttpSocketInterface::receive returns an error or spawns
\* start_monitoring, PipeInterface::receive spawns its reader
LoadReceive ==
    /\ ld_pc = "receive"
    /\ LET interface == ld_result.value.interfaces[ld_next]
           rejected == interface.type = "http" /\ receive_rejects(interface)
       IN  /\ ld_receive' = Append(ld_receive,
                    IF rejected
                    THEN [result |-> LoadErr("InvalidInterfaceConfiguration",
                                             "Both tls_cert_path and tls_cert_path must be provided for a TLS server"),
                          task |-> "none"]
                    ELSE [result |-> LoadOk(Unit), task |-> "spawned"])
           /\ ld_pc' = IF rejected THEN "start_failed"
                       ELSE IF ld_next < Len(ld_result.value.interfaces) THEN "receive"
                       ELSE "started"
           /\ ld_next' = IF rejected THEN ld_next ELSE ld_next + 1
    /\ UNCHANGED <<ld_file, ld_steps, ld_built, ld_result, loadOthers>>

\* a spawned listener or reader task runs for the first time
ListenerRun ==
    /\ \E i \in 1..Len(ld_receive) :
        /\ ld_receive[i].task = "spawned"
        /\ ld_receive' = [ld_receive EXCEPT ![i].task =
                IF ld_result.value.interfaces[i].type = "http"
                THEN start_monitoring_first_run(ld_result.value.interfaces[i])
                ELSE "reading"]
    /\ UNCHANGED <<ld_file, ld_pc, ld_next, ld_steps, ld_built, ld_result, loadOthers>>

LoadNext ==
    \/ LoadKey
    \/ LoadValidateInterface
    \/ LoadValidateEndpoint
    \/ LoadToInterface
    \/ LoadToEndpoint
    \/ LoadNew
    \/ LoadReceive
    \/ ListenerRun

SpecLoad == LoadInit /\ [][LoadNext]_vars

\* the load has returned an error
LoadFailed == ld_pc = "failed"
\* the load has returned a configuration
LoadReturned == ld_pc \in {"done", "receive", "start_failed", "started"}
\* the checks and conversions of interface and endpoint tables made so far
TableSteps == {i \in 1..Len(ld_steps) : ld_steps[i].op \notin {"valid_key_length", "new"}}

\* C22: loading a client or server configuration whose master key is not
\* exactly 32 bytes long fails with InvalidKeyLength before any interface or
\* endpoint table is validated or converted; a key of exactly 32 bytes
\* passes the check, and the load goes on to the tables.
C22_KeyLengthCheckedFirst ==
    ld_pc # "valid_key_length" =>
        /\ ld_steps[1].op = "valid_key_length"
        /\ Len(ld_file.key) # 32 =>
                /\ LoadFailed /\ ld_result.error = "InvalidKeyLength"
                /\ Len(ld_steps) = 1
                /\ ld_built.interfaces = <<>> /\ ld_built.endpoints = <<>>
        /\ Len(ld_file.key) = 32 =>
                /\ ld_steps[1].result.ok
                /\ LoadFailed => (Len(ld_steps) > 1 /\ ld_result.error # "InvalidKeyLength")

\* a 33-byte key in front of tables that are themselves invalid: only the key is reported
C22_Witness ==
    /\ LoadFailed /\ Len(ld_file.key) = 33
    /\ ld_file.interface # <<>> /\ ~to_interface(ld_file.interface[1]).ok
    /\ ld_file.endpoint # <<>> /\ ~to_endpoint(ld_file.endpoint[1]).ok
    /\ ld_result.error = "InvalidKeyLength"

\* C40: the length n carried by InvalidKeyLength(n) is the byte length of the
\* rejected master key, for every key length other than 32, and it is an
\* 8-bit unsigned integer.
C40_ErrorCarriesKeyLength ==
    (ld_pc # "valid_key_length" /\ Len(ld_file.key) # KEY_LENGTH) =>
        /\ ld_result.error = "InvalidKeyLength"
        /\ ld_result.arg \in 0..(U8_VALUES - 1)
        /\ ld_result.arg = Len(ld_file.key)

\* new has been called with the lists converted from the file
NewCalled == ld_steps # <<>> /\ ld_steps[Len(ld_steps)].op = "new"

\* C23: ServerConfiguration::new returns MissingInterface when the interface
\* list is empty, with or without endpoints, otherwise MissingEndpoint when
\* the endpoint list is empty, otherwise Ok; ClientConfiguration::new
\* returns MissingInterface exactly when its interface list is empty.
C23_MissingInterfaceBeforeEndpoint ==
    NewCalled =>
        IF ld_file.kind = "server"
        THEN IF ld_file.interface = <<>>
             THEN ~ld_result.ok /\ ld_result.error = "MissingInterface"
             ELSE IF ld_file.endpoint = <<>>
             THEN ~ld_result.ok /\ ld_result.error = "MissingEndpoint"
             ELSE ld_result.ok
        ELSE IF ld_file.interface = <<>>
             THEN ~ld_result.ok /\ ld_result.error = "MissingInterface"
             ELSE ld_result.ok

\* a server file with endpoints and no interface reports the missing interface
C23_Witness ==
    /\ NewCalled /\ ld_file.kind = "server"
    /\ ld_file.interface = <<>> /\ ld_file.endpoint # <<>>
    /\ ld_result.error = "MissingInterface"

\* the table a step looked at
StepTable(step) ==
    IF step.op \in {"validate_interface", "to_interface"}
    THEN ld_file.interface[step.index] ELSE ld_file.endpoint[step.index]

\* C24: converting an HTTP interface table or an email endpoint table
\* returns InvalidPortNumber(port) exactly when the port is 0 or outside the
\* u16 range, and accepts every port from 1 to 65535.
C24_PortRange ==
    \A i \in TableSteps :
        LET table == StepTable(ld_steps[i])
            result == ld_steps[i].result
        IN  table.type \in {"http", "email"} =>
                /\ (table.port = 0 \/ table.port > 65535) <=>
                        (~result.ok /\ result.error = "InvalidPortNumber" /\ result.arg = table.port)
                /\ (table.port >= 1 /\ table.port <= 65535) =>
                        (result.ok \/ result.error # "InvalidPortNumber")

\* C25: receive on an HTTP server interface with TLS enabled returns
\* InvalidInterfaceConfiguration and spawns no listener task unless both a
\* certificate path and a key path are configured.
C25_TlsNeedsCertAndKey ==
    \A i \in 1..Len(ld_receive) :
        LET interface == ld_result.value.interfaces[i] IN
            (interface.type = "http" /\ interface.tls
                /\ ~(interface.tls_cert_path # None /\ interface.tls_key_path # None)) =>
                    /\ ~ld_receive[i].result.ok
                    /\ ld_receive[i].result.error = "InvalidInterfaceConfiguration"
                    /\ ld_receive[i].task = "none"

\* the file endpoint tables of the file with a blank path, or with no notification
BlankPath(table) == table.type = "file" /\ table.path = ""
NoNotifications(table) == table.type = "file" /\ table.notifications = <<>>
\* the load stopped at endpoint table i
StoppedAtEndpoint(i) ==
    /\ LoadFailed
    /\ ld_steps[Len(ld_steps)].op \in {"validate_endpoint", "to_endpoint"}
    /\ ld_steps[Len(ld_steps)].index = i

\* C28: a server configuration load that comes to a file endpoint with a
\* blank path fails with InvalidEndpointConfiguration("File configuration
\* path is blank"), and one with an empty notifications list with
\* InvalidEndpointConfiguration("File configuration has no notifications
\* setup"); with both, the path error is reported; no configuration is
\* returned for a file that holds such an endpoint.
C28_FileEndpointChecked ==
    /\ \A i \in 1..Len(ld_file.endpoint) :
            LET table == ld_file.endpoint[i] IN
                /\ (StoppedAtEndpoint(i) /\ BlankPath(table)) =>
                        /\ ld_result.error = "InvalidEndpointConfiguration"
                        /\ ld_result.arg = "File configuration path is blank"
                /\ (StoppedAtEndpoint(i) /\ NoNotifications(table) /\ ~BlankPath(table)) =>
                        /\ ld_result.error = "InvalidEndpointConfiguration"
                        /\ ld_result.arg = "File configuration has no notifications setup"
                /\ (BlankPath(table) \/ NoNotifications(table)) => ~LoadReturned
    /\ ld_pc \in {"to_interface", "to_endpoint", "new"} =>
            \A i \in 1..Len(ld_file.endpoint) :
                ~BlankPath(ld_file.endpoint[i]) /\ ~NoNotifications(ld_file.endpoint[i])

\* a file endpoint with a blank path and no notifications, behind a valid
\* key and a valid interface: the path error is the one returned
C28_Witness ==
    /\ StoppedAtEndpoint(1)
    /\ BlankPath(ld_file.endpoint[1]) /\ NoNotifications(ld_file.endpoint[1])
    /\ ld_file.interface # <<>>
    /\ ld_result.arg = "File configuration path is blank"

(***************************************************************************)
(* The Matrix endpoint (endpoints/matrix.rs, matrix/common.rs,             *)
(* matrix/notify.rs): MatrixEndpoint::notify logs in, then its send task   *)
(* takes validated notifications from the bus and sends each to the rooms  *)
(* its sub_name names.                                                     *)
(***************************************************************************)
\* most messages the send task takes in one run
MaxRoomMessages == 2

\* str::trim
RECURSIVE trim_start(_)
trim_start(s) == IF s # <<>> /\ Head(s) \in Whitespace THEN trim_start(Tail(s)) ELSE s
RECURSIVE trim_end(_)
trim_end(s) == IF s # <<>> /\ s[Len(s)] \in Whitespace THEN trim_end(SubSeq(s, 1, Len(s) - 1)) ELSE s
trim(s) == trim_end(trim_start(s))
\* str::starts_with(char) and str::contains(char)
starts_with(s, c) == s # <<>> /\ Head(s) = c
contains(s, c) == \E i \in 1..Len(s) : s[i] = c

\* a validation that appends the default server to every room
validate_room_always_appends(room, default_server) ==
    IF starts_with(trim(room), "!") \/ starts_with(trim(room), "#")
    THEN LoadOk(trim(room) \o <<":">> \o default_server)
    ELSE LoadErr("InvalidMatrixRoomIdentifier", Unit)

\* validate_room
validate_room(room, default_server) ==
    IF starts_with(trim(room), "!") \/ starts_with(trim(room), "#")
    THEN IF ~contains(trim(room), ":")
         THEN LoadOk(trim(room) \o <<":">> \o default_server)
         ELSE LoadOk(trim(room))
    ELSE LoadErr("InvalidMatrixRoomIdentifier", Unit)

\* get_all_room_aliases: alternative aliases, canonical alias, room id
get_all_room_aliases(room) == room.alt_aliases \cup {room.canonical_alias, room.room_id}

\* the server name of the logged-in user (get_default_server)
DefaultServer == <<"s">>
\* the rooms the user has joined (client.joined_rooms())
JoinedRooms ==
    {[room_id |-> <<"!", "i", ":", "s">>, canonical_alias |-> <<"#", "r", ":", "s">>, alt_aliases |-> {}],
     [room_id |-> <<"!", "j", ":", "s">>, canonical_alias |-> <<"#", "q", ":", "s">>,
      alt_aliases |-> {<<"#", "r", ":", "t">>}]}
\* the rooms of the configuration, as written in the file
ConfiguredRooms == {<<"#", "r">>, <<"!", "j", ":", "s">>, <<"r", ":", "s">>}

\* process_rooms: the joined rooms that a valid configured room names
process_rooms(joined_rooms, room_map) ==
    {known_room \in joined_rooms :
        \E matrix_room \in room_map :
            /\ validate_room(matrix_room, DefaultServer).ok
            /\ validate_room(matrix_room, DefaultServer).value \in get_all_room_aliases(known_room)}

\* send_messages, the recv branch: the rooms of room_list the message is sent to
send_targets(sub_name, room_list) ==
    IF validate_room(sub_name, DefaultServer).ok
    THEN {room.room_id : room \in {known \in room_list :
                validate_room(sub_name, DefaultServer).value \in get_all_room_aliases(known)}}
    ELSE {}

\* sub_names of the notifications on the bus
RoomIdentifiers ==
    {<<"#", "r">>, <<"#", "r", ":", "s">>, <<" ", "#", "r", " ">>, <<"!", "j">>, <<"!", "j", ":", "s">>,
     <<"#", "r", ":", "t">>, <<"r", ":", "s">>, <<"x", "#", "r">>, <<" ">>, <<>>}

\* the functions login chooses between
LoginBranches == {"resume_session", "first_login"}

MatrixInit ==
    /\ mx_session \in {"absent", "valid", "corrupt"}
    /\ mx_pc = <<"login", "build">>
    /\ mx_trace = <<IF mx_session = "absent" THEN "NoSession" ELSE "Persisted">>
    /\ mx_error = None
    /\ mx_handled = <<>>
    /\ SignIdle /\ CodecIdle /\ ServerIdle /\ ShutdownIdle /\ RunIdle /\ LoadIdle /\ DetailIdle

matrixOthers == <<signVars, codecVars, serverVars, shutdownVars, runVars, loadVars, detailVars>>

\* an error of a step of login is returned to notify with `?`
LoginErr(branch) == mx_pc' = <<"login", "failed">> /\ mx_error' = branch

\* login: the client is built (which may fail), then
\* session_file_path().exists() chooses resume_session or first_login
LoginBuild ==
    /\ mx_pc = <<"login", "build">>
    /\ \E built \in BOOLEAN :
        IF built
        THEN /\ mx_pc' = <<IF mx_session = "absent" THEN "first_login" ELSE "resume_session", "auth">>
             /\ mx_error' = mx_error
        ELSE LoginErr("login")
    /\ UNCHANGED <<mx_session, mx_trace, mx_handled, matrixOthers>>

\* resume_session: the session file is parsed and restore_session is sent;
\* first_login: login_username is sent
LoginAuth(branch) ==
    /\ mx_pc = <<branch, "auth">>
    /\ \E accepted \in BOOLEAN :
        IF accepted /\ ~(branch = "resume_session" /\ mx_session = "corrupt")
        THEN /\ mx_pc' = <<branch, "recover">>
             /\ mx_trace' = Append(mx_trace, IF branch = "resume_session" THEN "Resumed" ELSE "FirstLogin")
             /\ mx_error' = mx_error
        ELSE LoginErr(branch) /\ mx_trace' = mx_trace
    /\ UNCHANGED <<mx_session, mx_handled, matrixOthers>>

\* the recovery of the backup (or its creation at a first login), then sync_once
LoginSync(branch) ==
    /\ mx_pc = <<branch, "recover">>
    /\ \E synced \in BOOLEAN :
        IF synced
        THEN /\ mx_pc' = <<branch, "save">>
             /\ mx_trace' = Append(mx_trace, "Synced")
             /\ mx_error' = mx_error
        ELSE LoginErr(branch) /\ mx_trace' = mx_trace
    /\ UNCHANGED <<mx_session, mx_handled, matrixOthers>>

\* persist.save_session()?; Ok(client): notify goes on to process_rooms and
\* spawns send_messages
LoginSave(branch) ==
    /\ mx_pc = <<branch, "save">>
    /\ \E written \in BOOLEAN :
        IF written
        THEN /\ mx_pc' = <<"send_messages", "loop">>
             /\ mx_session' = "valid"
             /\ mx_trace' = Append(mx_trace, "Persisted")
             /\ mx_error' = mx_error
        ELSE LoginErr(branch) /\ mx_trace' = mx_trace /\ mx_session' = mx_session
    /\ UNCHANGED <<mx_handled, matrixOthers>>

\* send_messages: the recv branch takes a message from the bus, validates
\* its sub_name and sends the text to every room of room_list it names
SendMessage ==
    /\ mx_pc = <<"send_messages", "loop">>
    /\ Len(mx_handled) < MaxRoomMessages
    /\ \E sub_name \in RoomIdentifiers :
        mx_handled' = Append(mx_handled,
            [sub_name |-> sub_name,
             msg_room |-> validate_room(sub_name, DefaultServer),
             sent_to |-> send_targets(sub_name, process_rooms(JoinedRooms, ConfiguredRooms))])
    /\ UNCHANGED <<mx_session, mx_pc, mx_trace, mx_error, matrixOthers>>

MatrixNext ==
    \/ LoginBuild
    \/ \E branch \in LoginBranches : LoginAuth(branch)
    \/ \E branch \in LoginBranches : LoginSync(branch)
    \/ \E branch \in LoginBranches : LoginSave(branch)
    \/ SendMessage

SpecMatrix == MatrixInit /\ [][MatrixNext]_vars

\* C26: on a run where a persisted session exists, login goes Persisted,
\* Resumed, Synced, Persisted; when resuming the persisted session fails,
\* login falls back to a first login and does not return the error of the
\* resume to its caller.
C26_ResumeFallsBackToFirstLogin ==
    /\ (mx_pc = <<"send_messages", "loop">> /\ mx_trace[1] = "Persisted") =>
            mx_trace \in {<<"Persisted", "Resumed", "Synced", "Persisted">>,
                          <<"Persisted", "FirstLogin", "Synced", "Persisted">>}
    /\ mx_pc = <<"login", "failed">> => mx_error # "resume_session"

\* C27: validate_room accepts a room identifier that, after trimming,
\* starts with '#' or '!', and appends ':' and the default server exactly
\* when the identifier holds no ':'; any other identifier yields
\* InvalidMatrixRoomIdentifier and its message is sent to no room; an
\* identifier that is already canonical is returned unchanged.
C27_RoomCanonicalised ==
    \A i \in 1..Len(mx_handled) :
        LET h == mx_handled[i]
            room == trim(h.sub_name)
        IN  /\ IF room # <<>> /\ room[1] \in {"#", "!"}
               THEN /\ h.msg_room.ok
                    /\ h.msg_room.value =
                            IF \E k \in 1..Len(room) : room[k] = ":"
                            THEN room ELSE room \o <<":">> \o DefaultServer
               ELSE /\ ~h.msg_room.ok
                    /\ h.msg_room.error = "InvalidMatrixRoomIdentifier"
                    /\ h.sent_to = {}
            /\ \A j \in 1..Len(mx_handled) :
                    (h.msg_room.ok /\ mx_handled[j].sub_name = h.msg_room.value) =>
                        (mx_handled[j].msg_room.ok /\ mx_handled[j].msg_room.value = h.msg_room.value)

\* "#r" was completed to "#r:s" and sent to its room, the completed form was
\* handled too, and another message named no room
C27_Witness ==
    /\ Len(mx_handled) = 2
    /\ mx_handled[1].sub_name = <<"#", "r">>
    /\ mx_handled[1].sent_to = {<<"!", "i", ":", "s">>}
    /\ mx_handled[2].sub_name = <<"#", "r", ":", "s">>
    /\ mx_handled[2].sent_to = {<<"!", "i", ":", "s">>}

\* ---------------------------------------------------------------------------
\* The validator with endpoint tasks that end: write_file returns when the
\* file cannot be opened, send_messages when the login fails; the receivers
\* they hold are dropped with them and every later send on the channel of
\* that endpoint returns Err.
\* ---------------------------------------------------------------------------

PublishItems ==
    {SignedItem(<<"b">>, Yo, server_key),
     SignedItem(<<"n", "3">>, Yo, server_key),
     BadItem(<<"{", "}">>)}

PublishInit ==
    /\ interface_rx = <<>>
    /\ frames_in = <<>>
    /\ frames_done = 0
    /\ decoded = <<>>
    /\ bus = [endpoint \in EndpointSet |-> <<>>]
    /\ keys_iter \in {order \in [EndpointSet -> UNION {IterationOrders(DOMAIN EndpointKeys(e)) : e \in EndpointSet}] :
                        \A endpoint \in EndpointSet :
                            order[endpoint] \in IterationOrders(DOMAIN EndpointKeys(endpoint))}
    /\ receivers = [endpoint \in EndpointSet |-> TRUE]
    /\ SignIdle /\ CodecIdle /\ ShutdownIdle /\ RunIdle /\ LoadIdle /\ MatrixIdle /\ DetailIdle

\* the task of an endpoint returns and drops its receivers
EndpointTaskEnd(endpoint) ==
    /\ receivers[endpoint]
    /\ receivers' = [receivers EXCEPT ![endpoint] = FALSE]
    /\ UNCHANGED <<interface_rx, frames_in, frames_done, decoded, bus, keys_iter, signVars,
                   codecVars, shutdownVars, runVars, loadVars, matrixVars, detailVars>>

PublishNext ==
    \/ \E n \in 1..2 : \E items \in [1..n -> PublishItems] : InterfaceReceive(items)
    \/ process_incoming_notifications
    \/ \E endpoint \in EndpointSet : EndpointTaskEnd(endpoint)

SpecPublish == PublishInit /\ [][PublishNext]_vars

\* the sub-names of an endpoint whose key-set holds a key matching the notification
MatchingSubNames(note, endpoint) ==
    {sub_name \in DOMAIN EndpointKeys(endpoint) : MatchesKeySet(note, endpoint, sub_name)}
\* a send on the channel of the endpoint returned Err
SendFailed(endpoint, src) ==
    \E k \in 1..Len(bus[endpoint]) : bus[endpoint][k].src = src /\ ~bus[endpoint][k].ok
\* the frame holds a value that does not decode
HasDecodeError(frame) ==
    \E i \in 1..Len(frames_in[frame]) : frames_in[frame][i].kind = "bad"

\* C29: no per-message error stops the validator loop.  Every frame taken
\* from the ingress queue is processed; a notification that decodes ahead of
\* any error of its frame is decoded whatever came in earlier frames; and a
\* decoded notification is sent on the channel of every endpoint and
\* sub-name whose key-set matches it, whether or not an earlier send
\* returned Err.
C29_ValidatorNeverStops ==
    /\ frames_done + Len(interface_rx) = Len(frames_in)
    /\ \A frame \in 1..frames_done :
            frames_in[frame][1].kind = "note" => \E d \in DecodedSet : d.src = <<frame, 1>>
    /\ \A d \in DecodedSet : \A endpoint \in EndpointSet :
            \A sub_name \in MatchingSubNames(d.note, endpoint) :
                \E k \in 1..Len(bus[endpoint]) :
                    /\ bus[endpoint][k].src = d.src
                    /\ bus[endpoint][k].vn.sub_name = sub_name

C29_Witness ==
    /\ frames_done = 3
    /\ HasDecodeError(1)
    /\ \E d \in DecodedSet :
            /\ d.src = <<2, 1>>
            /\ SendFailed("E1", d.src)
            /\ \E k \in 1..Len(bus["E2"]) : bus["E2"][k].src = d.src /\ bus["E2"][k].ok
    /\ \E d \in DecodedSet :
            /\ d.src = <<3, 1>>
            /\ Len(EntriesOf("MX", d.src)) = 2

\* C30: for one decoded notification the validator sends at most one
\* ValidatedNotification per endpoint and sub-name, and the number of its
\* sends on the channel of an endpoint is the number of sub-names of that
\* endpoint whose key-set holds a matching key.
C30_OnePublishPerSubName ==
    \A d \in DecodedSet : \A endpoint \in EndpointSet :
        /\ Len(EntriesOf(endpoint, d.src)) = Cardinality(MatchingSubNames(d.note, endpoint))
        /\ \A sub_name \in DOMAIN EndpointKeys(endpoint) :
                Cardinality({k \in 1..Len(bus[endpoint]) :
                                /\ bus[endpoint][k].src = d.src
                                /\ bus[endpoint][k].vn.sub_name = sub_name}) <= 1

C30_Witness ==
    /\ \E d \in DecodedSet :
            /\ GenuineFor(d, <<"n", "3">>)
            /\ Len(EntriesOf("MX", d.src)) = 2
            /\ Len(EntriesOf("E1", d.src)) = 0
    /\ \E d \in DecodedSet :
            /\ GenuineFor(d, <<"b">>)
            /\ Cardinality(EndpointKeys("E1")[<<>>]) = 2
            /\ Len(EntriesOf("E1", d.src)) = 1
            /\ Len(EntriesOf("E2", d.src)) = 1

\* C31: after shutdown has been signalled on the server, the validator task
\* eventually terminates.
C31_ValidatorTerminates ==
    (config.program = "start_server" /\ start_pc = "ShuttingDown")
        ~> (run_pc["process_incoming_notifications"] \in Ended)

\* the tasks of the run that multiplex a shutdown watcher with their receive
Multiplexers == Signers \cup {"write_pipe", "write_file", "read_pipe"}

C33_QueueDrainedOnShutdown ==
    run_pc["receive_notifications"] \in Ended
        => /\ at_signal \subseteq {signed[i] : i \in 1..Len(signed)}
           /\ at_signal \subseteq {bus_log[i] : i \in 1..Len(bus_log)}

(***************************************************************************)
(* The signing task of the client, statement by statement                  *)
(* (client.rs: receive_notifications, receive_notifications_arc), with the *)
(* host that supplies the messages.  A bus subscriber exists throughout, so *)
(* every send on the bus stores its value.                                 *)
(***************************************************************************)
\* most messages the host supplies
MaxSupplied == 3

SignerVariants == {"queue", "arc"}

SignerInit ==
    /\ sn_variant \in SignerVariants
    /\ sn_pc = "select"
    /\ sn_supplied = 0
    /\ sn_ingress = <<>>
    /\ sn_mutex = "free"
    /\ sn_local = <<>>
    /\ sn_bus = <<>>
    /\ sn_flag = FALSE
    /\ sn_passed = {}
    /\ CoreIdle /\ LagIdle /\ EgressIdle /\ SchedIdle /\ IngressIdle /\ TransitIdle

signerOthers == <<coreVars, lagVars, egressVars, schedVars, ingressVars, transitVars>>

\* the host sends a message on the ingress queue
QueueSend ==
    /\ sn_variant = "queue"
    /\ sn_supplied < MaxSupplied
    /\ sn_supplied' = sn_supplied + 1
    /\ sn_ingress' = Append(sn_ingress, sn_supplied + 1)
    /\ UNCHANGED <<sn_variant, sn_pc, sn_mutex, sn_local, sn_bus, sn_flag, sn_passed, signerOthers>>

\* the host locks the shared list
ListLock ==
    /\ sn_variant = "arc"
    /\ sn_supplied < MaxSupplied
    /\ sn_mutex = "free"
    /\ sn_mutex' = "host"
    /\ UNCHANGED <<sn_variant, sn_pc, sn_supplied, sn_ingress, sn_local, sn_bus, sn_flag, sn_passed, signerOthers>>

\* the host pushes a message and drops the guard
ListPush ==
    /\ sn_mutex = "host"
    /\ sn_supplied' = sn_supplied + 1
    /\ sn_ingress' = Append(sn_ingress, sn_supplied + 1)
    /\ sn_mutex' = "free"
    /\ UNCHANGED <<sn_variant, sn_pc, sn_local, sn_bus, sn_flag, sn_passed, signerOthers>>

\* listen_for_shutdown sets the flag
SignerTrigger ==
    /\ ~sn_flag
    /\ sn_flag' = TRUE
    /\ UNCHANGED <<sn_variant, sn_pc, sn_supplied, sn_ingress, sn_mutex, sn_local, sn_bus, sn_passed, signerOthers>>

\* the shutdown_rx.changed() branch of the select: break
SignerBreak ==
    /\ sn_pc = "select"
    /\ sn_flag
    /\ sn_pc' = "exited"
    /\ UNCHANGED <<sn_variant, sn_supplied, sn_ingress, sn_mutex, sn_local, sn_bus, sn_flag, sn_passed, signerOthers>>

\* receive_notifications: the recv branch of the select completes with a message
QueueRecv ==
    /\ sn_variant = "queue"
    /\ sn_pc = "select"
    /\ sn_ingress # <<>>
    /\ sn_local' = <<Head(sn_ingress)>>
    /\ sn_ingress' = Tail(sn_ingress)
    /\ sn_pc' = "publish"
    /\ UNCHANGED <<sn_variant, sn_supplied, sn_mutex, sn_bus, sn_flag, sn_passed, signerOthers>>

\* the sleep(SECOND) branch of the select completes; the recv of the queue
\* variant is dropped with it, and a message that was waiting stays queued
SignerTimer ==
    /\ sn_pc = "select"
    /\ sn_pc' = IF sn_variant = "queue" THEN "sleep" ELSE "drain"
    /\ sn_passed' = sn_passed \cup {sn_ingress[i] : i \in 1..Len(sn_ingress)}
    /\ UNCHANGED <<sn_variant, sn_supplied, sn_ingress, sn_mutex, sn_local, sn_bus, sn_flag, signerOthers>>

\* receive_notifications_arc: notifications.lock()
ArcLock ==
    /\ sn_pc = "drain"
    /\ sn_mutex = "free"
    /\ sn_mutex' = "signer"
    /\ sn_pc' = "locked"
    /\ UNCHANGED <<sn_variant, sn_supplied, sn_ingress, sn_local, sn_bus, sn_flag, sn_passed, signerOthers>>

\* a drain that keeps the guard while the messages are signed and sent
ArcDrain_keeps_guard ==
    /\ sn_pc = "locked"
    /\ sn_local' = sn_ingress
    /\ sn_ingress' = <<>>
    /\ sn_mutex' = IF sn_ingress = <<>> THEN "free" ELSE "signer"
    /\ sn_pc' = IF sn_ingress = <<>> THEN "sleep" ELSE "publish"
    /\ UNCHANGED <<sn_variant, sn_supplied, sn_bus, sn_flag, sn_passed, signerOthers>>

\* .drain(0..).collect(): the list is emptied into messages and the guard,
\* a temporary of the statement, is dropped
ArcDrain ==
    /\ sn_pc = "locked"
    /\ sn_local' = sn_ingress
    /\ sn_ingress' = <<>>
    /\ sn_mutex' = "free"
    /\ sn_pc' = IF sn_ingress = <<>> THEN "sleep" ELSE "publish"
    /\ UNCHANGED <<sn_variant, sn_supplied, sn_bus, sn_flag, sn_passed, signerOthers>>

\* to_notification and interface_tx.send of the next message
SignerPublish ==
    /\ sn_pc = "publish"
    /\ sn_bus' = Append(sn_bus, Head(sn_local))
    /\ sn_local' = Tail(sn_local)
    /\ sn_pc' = IF Tail(sn_local) = <<>> THEN "sleep" ELSE "publish"
    /\ UNCHANGED <<sn_variant, sn_supplied, sn_ingress, sn_mutex, sn_flag, sn_passed, signerOthers>>

\* sleep(NANOSECOND) at the end of the loop body
SignerSleep ==
    /\ sn_pc = "sleep"
    /\ sn_pc' = "select"
    /\ UNCHANGED <<sn_variant, sn_supplied, sn_ingress, sn_mutex, sn_local, sn_bus, sn_flag, sn_passed, signerOthers>>

SignerNext ==
    \/ QueueSend
    \/ ListLock
    \/ ListPush
    \/ SignerTrigger
    \/ SignerBreak
    \/ QueueRecv
    \/ SignerTimer
    \/ ArcLock
    \/ ArcDrain
    \/ SignerPublish
    \/ SignerSleep

SpecSigner == SignerInit /\ [][SignerNext]_vars

\* the messages 1..n in the order the host supplied them
Supplied(n) == [i \in 1..n |-> i]

\* C34: in both ingress variants the signer publishes in the order in which
\* the host supplied the messages and each message at most once; while the
\* task runs no message is lost, neither when the timer branch of the select
\* completes with a message waiting nor between two drains of the shared
\* list: every supplied message is on the bus, with the signer or still in
\* the ingress; and the signer holds the mutex of the list only for the
\* drain, never while it signs or publishes.
C34_OrderedOnceUnlocked ==
    /\ [](/\ sn_bus \o sn_local \o sn_ingress = Supplied(sn_supplied)
          /\ \A i, j \in 1..Len(sn_bus) : i < j => sn_bus[i] < sn_bus[j]
          /\ sn_mutex = "signer" <=> sn_pc = "locked")
    /\ [][sn_bus' # sn_bus => sn_mutex # "signer"]_vars

C34_Witness ==
    /\ sn_variant = "arc"
    /\ sn_bus = Supplied(MaxSupplied)
    /\ sn_passed = {1, 2, 3}
    /\ sn_pc = "select"

(***************************************************************************)
(* One subscriber of a broadcast channel that the sender outruns: the      *)
(* channel keeps the last values up to its capacity, and a receiver whose  *)
(* next value was overwritten gets Lagged once and is moved to the oldest  *)
(* value kept.                                                             *)
(***************************************************************************)
\* most values sent beyond the capacity of the channel
MaxOverrun == 2

\* usize::next_power_of_two, from power p on
RECURSIVE next_power_of_two(_, _)
next_power_of_two(n, p) == IF p >= n THEN p ELSE next_power_of_two(n, p + p)

\* broadcast::channel(CHANNEL_BUFFER): the capacity is rounded up to a power of two
BusCapacity == next_power_of_two(CHANNEL_BUFFER, 1)

\* the functions whose loop receives from a broadcast channel
LagTasks == {"write_file", "send_messages", "send_emails", "start_sending", "write_pipe"}

\* what each loop does with a Lagged result: write_pipe logs it and breaks;
\* start_sending warns; the endpoint loops act on Ok only
on_lagged(task) == IF task = "write_pipe" THEN "exited" ELSE "loop"

LagInit ==
    /\ lg_task \in LagTasks
    /\ lg_pc = "loop"
    /\ lg_published = 0
    /\ lg_cursor = 0
    /\ lg_done = 0
    /\ lg_missed = {}
    /\ lg_lagged = 0
    /\ CoreIdle /\ SignerIdle /\ EgressIdle /\ SchedIdle /\ IngressIdle /\ TransitIdle

lagOthers == <<coreVars, signerVars, egressVars, schedVars, ingressVars, transitVars>>

\* the signing task or the validator sends a value; a send never waits
LagPublish ==
    /\ lg_published < BusCapacity + MaxOverrun
    /\ lg_published' = lg_published + 1
    /\ UNCHANGED <<lg_task, lg_pc, lg_cursor, lg_done, lg_missed, lg_lagged, lagOthers>>

\* the values 1..Overwritten are no longer kept
Overwritten == IF lg_published > BusCapacity THEN lg_published - BusCapacity ELSE 0

\* rx.recv() (try_recv in start_sending) returns Ok(message) and the loop egresses it
LagRecvOk ==
    /\ lg_pc = "loop"
    /\ lg_cursor < lg_published
    /\ lg_cursor >= Overwritten
    /\ lg_cursor' = lg_cursor + 1
    /\ lg_done' = lg_done + 1
    /\ UNCHANGED <<lg_task, lg_pc, lg_published, lg_missed, lg_lagged, lagOthers>>

\* rx.recv() returns Err(Lagged(n)): the cursor moves to the oldest value kept
LagRecvLagged ==
    /\ lg_pc = "loop"
    /\ lg_cursor < Overwritten
    /\ lg_cursor' = Overwritten
    /\ lg_missed' = lg_missed \cup ((lg_cursor + 1)..Overwritten)
    /\ lg_lagged' = lg_lagged + 1
    /\ lg_pc' = on_lagged(lg_task)
    /\ UNCHANGED <<lg_task, lg_published, lg_done, lagOthers>>

LagNext ==
    \/ LagPublish
    \/ LagRecvOk
    \/ LagRecvLagged

SpecLag == LagInit /\ [][LagNext]_vars

\* C35: a bus subscriber that lags misses only the overwritten messages: it
\* keeps running after the Lagged result, and what lies before its cursor
\* is what it egressed and the overwritten values it skipped.
C35_LaggedSubscriberKeepsRunning ==
    /\ lg_lagged > 0 => lg_pc = "loop"
    /\ lg_cursor = lg_done + Cardinality(lg_missed)
    /\ \A m \in lg_missed : m <= Overwritten

(***************************************************************************)
(* Two endpoints of a server, each with its own broadcast channel and its  *)
(* own notify task, whose egress may fail: the write or flush of           *)
(* write_file, the POST of the Discord send_messages, the connect or send  *)
(* of send_emails.                                                         *)
(***************************************************************************)
\* most notifications the validator sends to the endpoints
MaxPublished == 3

EgressEndpoints == {"E1", "E2"}
EgressKinds == {"write_file", "send_messages", "send_emails"}

EgressInit ==
    /\ eg_kind \in [EgressEndpoints -> EgressKinds]
    /\ eg_pc = [e \in EgressEndpoints |-> "loop"]
    /\ eg_sent = 0
    /\ eg_bus = [e \in EgressEndpoints |-> <<>>]
    /\ eg_cursor = [e \in EgressEndpoints |-> 0]
    /\ eg_out = [e \in EgressEndpoints |-> <<>>]
    /\ eg_failed = [e \in EgressEndpoints |-> <<>>]
    /\ CoreIdle /\ SignerIdle /\ LagIdle /\ SchedIdle /\ IngressIdle /\ TransitIdle

egressOthers == <<coreVars, signerVars, lagVars, schedVars, ingressVars, transitVars>>

\* the validator sends a notification that matches both endpoints on the
\* channel of each
EgressPublish ==
    /\ eg_sent < MaxPublished
    /\ eg_sent' = eg_sent + 1
    /\ eg_bus' = [e \in EgressEndpoints |-> Append(eg_bus[e], eg_sent + 1)]
    /\ UNCHANGED <<eg_kind, eg_pc, eg_cursor, eg_out, eg_failed, egressOthers>>

\* a loop that returns the error of a failed egress
after_egress_returns_error(kind, ok) == IF ok THEN "loop" ELSE "exited"

\* what the loop does after the egress of a message: the three loops log an
\* error (warn!, error!) and go on to the next select
after_egress(kind, ok) == "loop"

\* rx.recv() returns Ok(message); the egress of the message succeeds or fails
EgressRecv(e) ==
    /\ eg_pc[e] = "loop"
    /\ eg_cursor[e] < Len(eg_bus[e])
    /\ eg_cursor' = [eg_cursor EXCEPT ![e] = @ + 1]
    /\ \E ok \in BOOLEAN :
            /\ eg_out' = IF ok THEN [eg_out EXCEPT ![e] = Append(@, eg_bus[e][eg_cursor[e] + 1])] ELSE eg_out
            /\ eg_failed' = IF ok THEN eg_failed ELSE [eg_failed EXCEPT ![e] = Append(@, eg_bus[e][eg_cursor[e] + 1])]
            /\ eg_pc' = [eg_pc EXCEPT ![e] = after_egress(eg_kind[e], ok)]
    /\ UNCHANGED <<eg_kind, eg_sent, eg_bus, egressOthers>>

EgressNext ==
    \/ EgressPublish
    \/ \E e \in EgressEndpoints : EgressRecv(e)

SpecEgress == EgressInit /\ [][EgressNext]_vars

\* the elements of a sequence
Range(seq) == {seq[i] : i \in 1..Len(seq)}

\* C36: a failed egress of one message is isolated to that message: the
\* notify task keeps running and egresses later messages, so that every
\* message it has received is egressed unless its own egress failed; and
\* the validator and the other endpoint are unaffected: every notification
\* the validator handled is on the channel of each endpoint, whatever failed.
C36_FailedEgressIsIsolated ==
    /\ [](\A e \in EgressEndpoints :
            /\ eg_pc[e] = "loop"
            /\ eg_bus[e] = Supplied(eg_sent)
            /\ Range(eg_out[e]) \cup Range(eg_failed[e]) = 1..eg_cursor[e]
            /\ Range(eg_out[e]) \cap Range(eg_failed[e]) = {})
    /\ [][\A e \in EgressEndpoints :
            eg_failed'[e] # eg_failed[e]
                => \A other \in EgressEndpoints \ {e} :
                        /\ eg_pc'[other] = eg_pc[other] /\ eg_bus'[other] = eg_bus[other]
                        /\ eg_out'[other] = eg_out[other] /\ eg_cursor'[other] = eg_cursor[other]]_vars

C36_Witness ==
    /\ eg_kind = [e \in EgressEndpoints |-> IF e = "E1" THEN "write_file" ELSE "send_emails"]
    /\ eg_failed["E1"] = <<2>>
    /\ eg_out["E1"] = <<1, 3>>
    /\ eg_out["E2"] = <<1, 2, 3>>

(***************************************************************************)
(* The tasks of a client on the worker threads of the runtime: a worker    *)
(* polls one task at a time and gets it back only when the task reaches an *)
(* await that is not ready.  Task 0 is receive_notifications, tasks 1..n   *)
(* are the start_sending tasks of the HTTP interfaces.  The host and       *)
(* start_client itself run on the thread that called block_on.             *)
(***************************************************************************)
\* most worker threads
MaxWorkers == 2
\* most HTTP client interfaces
MaxHttp == 2
\* most iterations without suspension counted per task
MaxSpins == 2

SignerTask == 0
SchedTasks == 0..sc_https
HttpTasks == 1..sc_https

SchedInit ==
    /\ sc_workers \in 1..MaxWorkers
    /\ sc_https \in 1..MaxHttp
    /\ sc_state = [t \in 0..sc_https |-> "ready"]
    /\ sc_supplied = 0
    /\ sc_ingress = 0
    /\ sc_bus = 0
    /\ sc_cursor = [t \in 1..sc_https |-> 0]
    /\ sc_spins = [t \in 1..sc_https |-> 0]
    /\ CoreIdle /\ SignerIdle /\ LagIdle /\ EgressIdle /\ IngressIdle /\ TransitIdle

schedOthers == <<coreVars, signerVars, lagVars, egressVars, ingressVars, transitVars>>

\* a worker without a task takes a ready task from the run queue
SchedRun(t) ==
    /\ t \in SchedTasks
    /\ sc_state[t] = "ready"
    /\ Cardinality({u \in SchedTasks : sc_state[u] = "running"}) < sc_workers
    /\ sc_state' = [sc_state EXCEPT ![t] = "running"]
    /\ UNCHANGED <<sc_workers, sc_https, sc_supplied, sc_ingress, sc_bus, sc_cursor, sc_spins, schedOthers>>

\* the host sends a message on the ingress queue
SchedSupply ==
    /\ sc_supplied < MaxSupplied
    /\ sc_supplied' = sc_supplied + 1
    /\ sc_ingress' = sc_ingress + 1
    /\ UNCHANGED <<sc_workers, sc_https, sc_state, sc_bus, sc_cursor, sc_spins, schedOthers>>

\* receive_notifications is polled: with a message waiting the recv branch
\* completes, the message is signed and sent and the task suspends in
\* sleep(NANOSECOND); with none the select is pending and the task suspends
SignerPoll ==
    /\ sc_state[SignerTask] = "running"
    /\ sc_state' = [sc_state EXCEPT ![SignerTask] = "waiting"]
    /\ sc_ingress' = IF sc_ingress > 0 THEN sc_ingress - 1 ELSE sc_ingress
    /\ sc_bus' = IF sc_ingress > 0 THEN sc_bus + 1 ELSE sc_bus
    /\ UNCHANGED <<sc_workers, sc_https, sc_supplied, sc_cursor, sc_spins, schedOthers>>

\* the waker of a suspended task is called: a sleep of the signing task is
\* over, at the latest that of sleep(SECOND); a POST has its answer
SchedWake(t) ==
    /\ t \in SchedTasks
    /\ sc_state[t] = "waiting"
    /\ sc_state' = [sc_state EXCEPT ![t] = "ready"]
    /\ UNCHANGED <<sc_workers, sc_https, sc_supplied, sc_ingress, sc_bus, sc_cursor, sc_spins, schedOthers>>

\* what start_sending does when try_recv returns Empty: it logs with trace!
\* and starts the next iteration, with no await in between
on_empty == "running"

\* start_sending is polled: one iteration of its loop.  With a notification
\* on the bus it suspends in the POST; with none the iteration ends on Empty
HttpPoll(t) ==
    /\ t \in HttpTasks
    /\ sc_state[t] = "running"
    /\ \/ /\ sc_cursor[t] < sc_bus
          /\ sc_cursor' = [sc_cursor EXCEPT ![t] = @ + 1]
          /\ sc_state' = [sc_state EXCEPT ![t] = "waiting"]
          /\ UNCHANGED sc_spins
       \/ /\ sc_cursor[t] = sc_bus
          /\ sc_state' = [sc_state EXCEPT ![t] = on_empty]
          /\ sc_spins' = [sc_spins EXCEPT ![t] =
                            IF on_empty = "running" /\ @ < MaxSpins THEN @ + 1 ELSE @]
          /\ UNCHANGED sc_cursor
    /\ UNCHANGED <<sc_workers, sc_https, sc_supplied, sc_ingress, sc_bus, schedOthers>>

SchedNext ==
    \/ \E t \in SchedTasks : SchedRun(t)
    \/ SchedSupply
    \/ SignerPoll
    \/ \E t \in SchedTasks : SchedWake(t)
    \/ \E t \in HttpTasks : HttpPoll(t)

\* the run queue is first in first out, so a ready task is taken if workers
\* keep becoming free; a task on a worker is polled; and every sleep and
\* every POST ends
SchedFairness ==
    /\ \A t \in 0..MaxHttp : SF_vars(SchedRun(t)) /\ WF_vars(SchedWake(t))
    /\ WF_vars(SignerPoll)
    /\ \A t \in 1..MaxHttp : WF_vars(HttpPoll(t))

SpecSched == SchedInit /\ [][SchedNext]_vars /\ SchedFairness

\* C37: every task loop reaches a suspension point in each iteration, and
\* no set of tasks starves the others: a start_sending task whose bus is
\* empty suspends, and a message sent to the client is eventually taken by
\* the signing task and published, also when there are at least as many
\* HTTP client interfaces as workers.
C37_NoTaskStarves ==
    /\ [](\A t \in HttpTasks : sc_spins[t] = 0)
    /\ (sc_ingress > 0) ~> (sc_ingress = 0)

\* ---------------------------------------------------------------------------
\* The server's interface ingress queue.  start_server creates
\* mpsc::channel(CHANNEL_BUFFER); read_pipe and every call of
\* notification_handler send on a clone of interface_tx, and
\* process_incoming_notifications is the one receiver.  An mpsc channel of
\* tokio has exactly as many permits as its capacity; send takes a permit
\* or waits for one in a first come first served line; recv removes the
\* oldest value and hands its permit to the first in the line.  The sender
\* puts its value in the queue when its task runs again.
\* ---------------------------------------------------------------------------

\* the pipe reader reads this many frames more than the queue holds
MaxOverfill == 1
\* the frames the HTTP clients post, all connections together
MaxHttpFrames == 2
\* the HTTP clients post during a burst: while at most this many places of
\* the queue are free
MaxHttpRoom == 1

\* the connections of the HTTP interface: each client posts a frame and
\* waits for the answer before it posts the next one
HttpConns == {"h1", "h2"}
Conns == {"pipe"} \cup HttpConns

NoFrame == [conn |-> "none", n |-> 0, k |-> 0]

IngressInit ==
    /\ iq_queue = <<>>
    /\ iq_waiters = <<>>
    /\ iq_task = [c \in Conns |-> "idle"]
    /\ iq_held = [c \in Conns |-> NoFrame]
    /\ iq_arrived = [c \in Conns |-> 0]
    /\ iq_http_seq = 0
    /\ iq_recv = [c \in Conns |-> 0]
    /\ iq_recv_k = 0
    /\ CoreIdle /\ SignerIdle /\ LagIdle /\ EgressIdle /\ SchedIdle /\ TransitIdle

ingressOthers == <<coreVars, signerVars, lagVars, egressVars, schedVars, transitVars>>

\* the permits of the channel nobody holds: a value in the queue holds one,
\* a sender that was handed one holds it until it has put its value in
permits ==
    CHANNEL_BUFFER - Len(iq_queue) - Cardinality({c \in Conns : iq_task[c] = "granted"})

has_permit_always == TRUE

\* Sender::send finds a permit
has_permit == permits > 0

\* tx.send(frame).await of connection c, up to its first suspension
tx_send(c, frame) ==
    IF has_permit
    THEN /\ iq_queue' = Append(iq_queue, frame)
         /\ UNCHANGED <<iq_waiters, iq_task, iq_held>>
    ELSE /\ iq_waiters' = Append(iq_waiters, c)
         /\ iq_task' = [iq_task EXCEPT ![c] = "waiting"]
         /\ iq_held' = [iq_held EXCEPT ![c] = frame]
         /\ UNCHANGED iq_queue

\* read_pipe: the pipe is readable, read_to_string returns and the string
\* is sent; the task reads nothing while it waits in send
PipeRead ==
    /\ iq_task["pipe"] = "idle"
    /\ iq_arrived["pipe"] < CHANNEL_BUFFER + MaxOverfill
    /\ iq_arrived' = [iq_arrived EXCEPT !["pipe"] = @ + 1]
    /\ tx_send("pipe", [conn |-> "pipe", n |-> iq_arrived["pipe"] + 1, k |-> 0])
    /\ UNCHANGED <<iq_http_seq, iq_recv, iq_recv_k, ingressOthers>>

\* notification_handler is called with the request of connection c, the
\* iq_http_seq + 1 st request of the interface; the answer is given after
\* the send
HttpPost(c) ==
    /\ c \in HttpConns
    /\ iq_task[c] = "idle"
    /\ iq_http_seq < MaxHttpFrames
    /\ permits <= MaxHttpRoom
    /\ iq_arrived' = [iq_arrived EXCEPT ![c] = @ + 1]
    /\ iq_http_seq' = iq_http_seq + 1
    /\ tx_send(c, [conn |-> c, n |-> iq_arrived[c] + 1, k |-> iq_http_seq + 1])
    /\ UNCHANGED <<iq_recv, iq_recv_k, ingressOthers>>

\* process_incoming_notifications: msg_rx.recv() returns the oldest frame;
\* its permit goes to the first sender in the line, if there is one
IngressRecv ==
    /\ iq_queue # <<>>
    /\ LET frame == Head(iq_queue) IN
         /\ iq_recv' = [iq_recv EXCEPT ![frame.conn] = frame.n]
         /\ iq_recv_k' = IF frame.conn \in HttpConns THEN frame.k ELSE iq_recv_k
    /\ iq_queue' = Tail(iq_queue)
    /\ IF iq_waiters # <<>>
       THEN /\ iq_task' = [iq_task EXCEPT ![Head(iq_waiters)] = "granted"]
            /\ iq_waiters' = Tail(iq_waiters)
       ELSE UNCHANGED <<iq_task, iq_waiters>>
    /\ UNCHANGED <<iq_held, iq_arrived, iq_http_seq, ingressOthers>>

\* a sender that was handed a permit runs again: send puts the value in
\* the queue and returns Ok
SenderResume(c) ==
    /\ c \in Conns
    /\ iq_task[c] = "granted"
    /\ iq_queue' = Append(iq_queue, iq_held[c])
    /\ iq_task' = [iq_task EXCEPT ![c] = "idle"]
    /\ iq_held' = [iq_held EXCEPT ![c] = NoFrame]
    /\ UNCHANGED <<iq_waiters, iq_arrived, iq_http_seq, iq_recv, iq_recv_k, ingressOthers>>

IngressNext ==
    \/ PipeRead
    \/ \E c \in HttpConns : HttpPost(c)
    \/ IngressRecv
    \/ \E c \in Conns : SenderResume(c)

SpecIngress == IngressInit /\ [][IngressNext]_vars

\* the frames of connection c that are in the queue
Queued(c) == Cardinality({i \in 1..Len(iq_queue) : iq_queue[i].conn = c})

\* the queue never holds more than CHANNEL_BUFFER frames, and a sender
\* waits only at a queue with no place left
QueueBounded ==
    /\ Len(iq_queue) <= CHANNEL_BUFFER
    /\ \A c \in Conns : iq_task[c] = "waiting" => permits = 0

\* every frame that arrived was taken by the validator, is in the queue or
\* is held by its sender
NothingDropped ==
    \A c \in Conns :
        iq_arrived[c] = iq_recv[c] + Queued(c) + (IF iq_task[c] = "idle" THEN 0 ELSE 1)

\* a waiting sender goes on only in a step in which the validator takes a
\* frame
WaitEndsAtRecv ==
    \A c \in Conns :
        iq_task[c] = "waiting" /\ iq_task'[c] # "waiting" => iq_queue' = Tail(iq_queue)

\* the validator takes the frames of one connection in their arrival order
ConnectionOrder ==
    \A c \in Conns : iq_recv'[c] # iq_recv[c] => iq_recv'[c] = iq_recv[c] + 1

\* the validator takes the frames of the HTTP interface in the order in
\* which its handler was called
InterfaceOrder == iq_recv_k' # iq_recv_k => iq_recv_k' = iq_recv_k + 1

\* C38 as stated: the queue never holds more than CHANNEL_BUFFER frames, a
\* receiver that enqueues into a full queue waits until the validator has
\* removed a frame, nothing is dropped, and the frames of one interface reach
\* the validator in their arrival order.
C38_InterfaceArrivalOrder ==
    /\ [](QueueBounded /\ NothingDropped)
    /\ [][WaitEndsAtRecv /\ ConnectionOrder /\ InterfaceOrder]_vars

\* C38, amended: as above, with the order kept for the frames of one
\* connection of an interface (the pipe, or one HTTP client that waits for
\* each answer), not for the requests of concurrent HTTP connections.
C38_ConnectionArrivalOrder ==
    /\ [](QueueBounded /\ NothingDropped)
    /\ [][WaitEndsAtRecv /\ ConnectionOrder]_vars

\* the pipe reader waited at the full queue and was handed the place of a
\* frame the validator took, and an HTTP handler waits behind it
C38_Witness ==
    /\ iq_task["pipe"] = "granted"
    /\ iq_recv["pipe"] >= 1
    /\ Len(iq_queue) = CHANNEL_BUFFER - 1
    /\ \E c \in HttpConns : iq_task[c] = "waiting"

\* ---------------------------------------------------------------------------
\* One message from Message::new at the client to the bus of an endpoint of
\* the server: the client signs it, its interface encodes it, the server's
\* interface puts a string in the ingress queue (read_pipe the string it
\* read, notification_handler the re-encoding of what axum's Json extractor
\* decoded) and the validator decodes the string and validates the result.
\* ---------------------------------------------------------------------------

TransitMessages ==
    {Message(text, time) : text \in StringsOver(CodecAlphabet), time \in 0..MaxTime}

\* "a" is a notification name of endpoint E1, "d" of no endpoint
TransitNames == {<<"a">>, <<"d">>}

TransitInit ==
    /\ tr_pc = "created"
    /\ tr_route \in {"pipe", "http"}
    /\ tr_crm \in {ClientReadyMessage(name, message) : name \in TransitNames, message \in TransitMessages}
    /\ tr_note = None
    /\ tr_wire = <<>>
    /\ tr_frame = <<>>
    /\ tr_decoded = <<>>
    /\ tr_bus = <<>>
    /\ CoreIdle /\ SignerIdle /\ LagIdle /\ EgressIdle /\ SchedIdle /\ IngressIdle

transitOthers == <<coreVars, signerVars, lagVars, egressVars, schedVars, ingressVars>>

\* receive_notifications: the message is signed under the key of its name
TransitSign ==
    /\ tr_pc = "created"
    /\ tr_note' = to_notification(tr_crm, server_key)
    /\ tr_pc' = "signed"
    /\ UNCHANGED <<tr_route, tr_crm, tr_wire, tr_frame, tr_decoded, tr_bus, transitOthers>>

\* write_pipe and start_sending: the notification's to_json is what is sent
TransitSend ==
    /\ tr_pc = "signed"
    /\ tr_wire' = to_json(tr_note)
    /\ tr_pc' = "sent"
    /\ UNCHANGED <<tr_route, tr_crm, tr_note, tr_frame, tr_decoded, tr_bus, transitOthers>>

\* read_pipe: the string read from the pipe is put in the queue as it is
TransitReadPipe ==
    /\ tr_pc = "sent" /\ tr_route = "pipe"
    /\ tr_frame' = tr_wire
    /\ tr_pc' = "queued"
    /\ UNCHANGED <<tr_route, tr_crm, tr_note, tr_wire, tr_decoded, tr_bus, transitOthers>>

\* a handler that sends the time at which the request arrived
handler_frame_retimed(notification) ==
    to_json([notification EXCEPT !.message.time = (@ + 1) % (MaxTime + 1)])

\* notification_handler: what it sends for the Notification it was given
handler_frame(notification) == to_json(notification)

\* the HTTP interface: the Json extractor decodes the body; a body that is
\* no Notification is answered by the extractor and the handler not called
TransitHandler ==
    /\ tr_pc = "sent" /\ tr_route = "http"
    /\ LET extracted == from_json(tr_wire) IN
         IF extracted.ok
         THEN tr_frame' = handler_frame(extracted.val) /\ tr_pc' = "queued"
         ELSE tr_frame' = tr_frame /\ tr_pc' = "rejected"
    /\ UNCHANGED <<tr_route, tr_crm, tr_note, tr_wire, tr_decoded, tr_bus, transitOthers>>

\* process_incoming_notifications: the frame is decoded
TransitDecode ==
    /\ tr_pc = "queued"
    /\ tr_decoded' = from_json_multi(tr_frame)
    /\ tr_pc' = "decoded"
    /\ UNCHANGED <<tr_route, tr_crm, tr_note, tr_wire, tr_frame, tr_bus, transitOthers>>

\* process_incoming_notifications: every Ok result is validated against the
\* keys of endpoint E1 and sent where a key-set validates
TransitValidate ==
    /\ tr_pc = "decoded"
    /\ tr_bus' = frame_sends("E1", << <<>> >>, tr_decoded, 1, 1)
    /\ tr_pc' = "published"
    /\ UNCHANGED <<tr_route, tr_crm, tr_note, tr_wire, tr_frame, tr_decoded, transitOthers>>

TransitNext ==
    \/ TransitSign
    \/ TransitSend
    \/ TransitReadPipe
    \/ TransitHandler
    \/ TransitDecode
    \/ TransitValidate

SpecTransit == TransitInit /\ [][TransitNext]_vars

\* C39: the Message of a ValidatedNotification delivered to an endpoint is
\* the Message created at the client: after signing, JSON encoding, the HTTP
\* handler's decode and re-encode, stream decoding and validation the text
\* and the time are those of the message created.
C39_MessageUnchangedEndToEnd ==
    /\ tr_pc # "created" => tr_note.message = tr_crm.message
    /\ tr_pc \in {"decoded", "published"} =>
         /\ Len(tr_decoded) = 1
         /\ tr_decoded[1].ok
         /\ tr_decoded[1].val.message = tr_crm.message
    /\ \A k \in 1..Len(tr_bus) : tr_bus[k].vn.message = tr_crm.message

\* a message whose text needs escaping and whose time has two digits went
\* through the HTTP handler and was delivered
C39_Witness ==
    /\ tr_pc = "published"
    /\ tr_route = "http"
    /\ tr_crm.message = Message(<<QUOTE, BACKSLASH>>, MaxTime)
    /\ Len(tr_bus) = 1
    /\ tr_bus[1].vn.message = tr_crm.message

====
